---- MODULE Spec2Model ----
(***************************************************************************)
(* MorphoScope: the spread quantification pipeline of                      *)
(* src/src/image_processor.py (class ImageProcessor) and the synthetic     *)
(* ellipsoid of src/validation/synthetic_volumes_generator.py.             *)
(*                                                                         *)
(* Numbers.  A real is carried exactly as a reduced fraction <<n, d>> with *)
(* d > 0; <<0, 0>> is NaN, the result of 0/0 and the "no value" marker.    *)
(* A square root is carried by its radicand and only evaluated where the   *)
(* code rounds it.  round(x, 2) is numpy's rint(x * 100) / 100, ties to    *)
(* even; a rounded value is carried as its integer number of hundredths.   *)
(* Arithmetic is exact: binary floating-point error is not modelled.       *)
(*                                                                         *)
(* Arrays.  A volume is [shape, dtype, den, v]: v maps 0-based index       *)
(* triples to integers and the voxel at p has intensity v[p] / den.        *)
(***************************************************************************)
EXTENDS Integers, Sequences, FiniteSets, TLC

\* ------------------------------------------------------------------ bounds
\* The enumerated input volumes are those whose voxels are integers >= -1 with
\* absolute values summing to at most MaxTotal.
MaxTotal == 4
\* The same bound for the volumes handed to the methods called on their own.
MaxDirectTotal == 3

\* ------------------------------------------------------------- arithmetic
Abs(x) == IF x < 0 THEN -x ELSE x

RECURSIVE GCD(_, _)
GCD(a, b) == IF b = 0 THEN a ELSE GCD(b, a % b)

NaN == <<0, 0>>
IsNaN(q) == q[2] = 0

\* n / d for d > 0, in lowest terms.
Rat(n, d) ==
  LET g == GCD(Abs(n), d)
  IN  <<(IF n < 0 THEN -(Abs(n) \div g) ELSE n \div g), d \div g>>

Int2R(n) == <<n, 1>>
RAdd(p, q) ==
  IF IsNaN(p) \/ IsNaN(q) THEN NaN
  ELSE Rat(p[1] * q[2] + q[1] * p[2], p[2] * q[2])
RNeg(p) == <<-p[1], p[2]>>
RSub(p, q) == RAdd(p, RNeg(q))
RMul(p, q) ==
  IF IsNaN(p) \/ IsNaN(q) THEN NaN
  ELSE LET g1 == GCD(Abs(p[1]), q[2])
           g2 == GCD(Abs(q[1]), p[2])
       IN  Rat((p[1] \div g1) * (q[1] \div g2), (p[2] \div g2) * (q[2] \div g1))
\* numpy's true division of scalars: 0/0 is nan (a RuntimeWarning, no exception).
\* The code never divides a non-zero value by zero on a path the model takes.
RDiv(p, q) ==
  IF IsNaN(p) \/ IsNaN(q) \/ q[1] = 0 THEN NaN
  ELSE IF q[1] < 0 THEN RMul(p, <<-q[2], -q[1]>>)
  ELSE RMul(p, <<q[2], q[1]>>)
RSquare(p) == RMul(p, p)
RIsZero(p) == ~IsNaN(p) /\ p[1] = 0
RIsPos(p) == ~IsNaN(p) /\ p[1] > 0

RECURSIVE SumSeq(_)
SumSeq(s) == IF s = <<>> THEN 0 ELSE Head(s) + SumSeq(Tail(s))

RECURSIVE RSumSeq(_)
RSumSeq(s) == IF s = <<>> THEN Int2R(0) ELSE RAdd(Head(s), RSumSeq(Tail(s)))

\* np.nanmean in place of np.nansum: the sum of the entries that are not NaN
\* divided by their number.
RNanMeanSeq(s) ==
  LET defined == SelectSeq(s, LAMBDA q : ~IsNaN(q))
  IN  IF defined = <<>> THEN NaN
      ELSE RDiv(RSumSeq(defined), Int2R(Len(defined)))

\* np.nansum: NaN entries are skipped.
RECURSIVE RNanSumSeq(_)
RNanSumSeq(s) ==
  IF s = <<>> THEN Int2R(0)
  ELSE IF IsNaN(Head(s)) THEN RNanSumSeq(Tail(s))
  ELSE RAdd(Head(s), RNanSumSeq(Tail(s)))

\* a/b <= c/d for a, c >= 0 and b, d > 0, by the Euclidean expansion of both
\* sides, so that no product is formed.
RECURSIVE FracLeq(_, _, _, _)
FracLeq(a, b, c, d) ==
  LET qa == a \div b
      qc == c \div d
      ra == a % b
      rc == c % d
  IN  IF qa # qc THEN qa < qc
      ELSE IF ra = 0 THEN TRUE
      ELSE IF rc = 0 THEN FALSE
      ELSE FracLeq(d, rc, b, ra)

\* The number of decimal places every reported scalar is rounded to.
Decimals == 2
Scale == 10 ^ Decimals

\* rint: the nearest integer to n / d (n >= 0, d > 0), ties to even.
RintNonNeg(n, d) ==
  LET f == n \div d
      r == n % d
  IN  IF 2 * r < d THEN f
      ELSE IF 2 * r > d THEN f + 1
      ELSE IF f % 2 = 0 THEN f ELSE f + 1

\* q cut off after 2 decimals, in hundredths.
Truncate2(q) ==
  IF q[1] < 0 THEN -(((-q[1]) * Scale) \div q[2])
  ELSE (q[1] * Scale) \div q[2]

\* round(q, 2) of a real q, in hundredths.
Round2(q) ==
  IF q[1] < 0 THEN -RintNonNeg((-q[1]) * Scale, q[2])
  ELSE RintNonNeg(q[1] * Scale, q[2])

\* The largest k in lo .. hi-1 with k^2 <= (2 * Scale)^2 * n / d.
RECURSIVE FloorSqrt(_, _, _, _)
FloorSqrt(n, d, lo, hi) ==
  IF hi - lo <= 1 THEN lo
  ELSE LET mid == (lo + hi) \div 2
       IN  IF FracLeq(mid * mid, 4 * Scale * Scale, n, d)
           THEN FloorSqrt(n, d, mid, hi)
           ELSE FloorSqrt(n, d, lo, mid)

\* round(np.sqrt(q), 2) for a real q >= 0, in hundredths: k = floor(200 sqrt q),
\* and 100 sqrt(q) lies in [k/2, (k+1)/2).
Round2Sqrt(q) ==
  LET k == FloorSqrt(q[1], q[2], 0, 32768)
      exact == FracLeq(q[1], q[2], k * k, 4 * Scale * Scale)
  IN  IF k % 2 = 0 THEN k \div 2
      ELSE IF ~exact THEN (k + 1) \div 2
      ELSE IF ((k - 1) \div 2) % 2 = 0 THEN (k - 1) \div 2 ELSE (k + 1) \div 2

\* ----------------------------------------------------------------- arrays
Idx(shape) == (0 .. shape[1] - 1) \X (0 .. shape[2] - 1) \X (0 .. shape[3] - 1)

IsIntegerType(dtype) == dtype \in {"uint8", "uint16"}

\* np.sum(image), as a real.
np_sum(img) ==
  Rat(SumSeq([i \in 1 .. img.shape[1] |->
        SumSeq([j \in 1 .. img.shape[2] |->
          SumSeq([k \in 1 .. img.shape[3] |-> img.v[<<i - 1, j - 1, k - 1>>]])])]),
      img.den)

\* A check that lets every image pass.
negative_ignored(img) == FALSE

\* np.any(image < 0)
any_negative(img) == \E p \in DOMAIN img.v : img.v[p] < 0

\* image.transpose(1, 2, 0): new[i, j, k] = old[k, i, j]
transpose_120(img) ==
  LET s == <<img.shape[2], img.shape[3], img.shape[1]>>
  IN  [img EXCEPT !.shape = s,
                  !.v = [p \in Idx(s) |-> img.v[<<p[3], p[1], p[2]>>]]]

\* np.flip(image, axis=0): a mirror, which keeps the shape.
flip0(img) ==
  [img EXCEPT !.v = [p \in Idx(img.shape) |->
                       img.v[<<img.shape[1] - 1 - p[1], p[2], p[3]>>]]]

\* np.rot90(image, k=-1, axes=(0, 1)), the turn the other way round:
\* new[i, j, k] = old[nrows - 1 - j, i, k]
rot90_clockwise(img) ==
  LET s == <<img.shape[2], img.shape[1], img.shape[3]>>
  IN  [img EXCEPT !.shape = s,
                  !.v = [p \in Idx(s) |->
                           img.v[<<img.shape[1] - 1 - p[2], p[1], p[3]>>]]]

\* np.rot90(image, k=1, axes=(0, 1)): new[i, j, k] = old[j, ncols - 1 - i, k]
rot90(img) ==
  LET s == <<img.shape[2], img.shape[1], img.shape[3]>>
  IN  [img EXCEPT !.shape = s,
                  !.v = [p \in Idx(s) |->
                           img.v[<<p[2], img.shape[2] - 1 - p[1], p[3]>>]]]

\* ------------------------------------------------- ImageProcessor methods
\* A processor is its three voxel sizes <<voxel_size_x, voxel_size_y, voxel_size_z>>,
\* each a real.

\* calculate_fluorescence: <<fluorescence per pixel, fluorescence per um^2>>,
\* both rounded to 2 decimals.
calculate_fluorescence(voxel_size, image_3d, mask_area_pixels) ==
  LET total_intensity == np_sum(image_3d)
      fluor_px == RDiv(total_intensity, Int2R(mask_area_pixels))
      area_um2 == RMul(Int2R(mask_area_pixels), RMul(voxel_size[1], voxel_size[2]))
      fluor_um == RDiv(total_intensity, area_um2)
  IN  <<Round2(fluor_px), Round2(fluor_um)>>

\* An angle phi is carried by the tangent of its double, tan(2 phi) = n / d with
\* d >= 0 and -45 <= phi <= 45 degrees; d = 0 is +45 or -45 degrees by the sign of n.
ZeroAngle == [n |-> 0, d |-> 1]

\* np.linalg.eig of the symmetric matrix [[Cxx, Cxy], [Cxy, Cyy]] (LAPACK dgeev):
\* the eigenpairs come in the order of the diagonal entries they continue, not
\* sorted, so column 0 is the eigenvector of the larger eigenvalue exactly when
\* Cxx >= Cyy.  tan2 is the tangent of twice the angle of column 0 to the x axis.
\* Column 0 is (cs, sn) of the rotation that diagonalizes the matrix (dlanv2):
\* cs is never 0, and it is negative exactly when Cxy # 0 and Cxx < Cyy; e.g.
\* [[1, 2], [2, 4]] gives the eigenvalues (0, 5) and column 0 = (-0.894, 0.447).
linalg_eig(Cxx, Cxy, Cyy) ==
  LET diff == RSub(Cxx, Cyy)
      t == IF RIsZero(Cxy) THEN <<0, 1>>
           ELSE IF RIsZero(diff) THEN <<(IF Cxy[1] > 0 THEN 1 ELSE -1), 0>>
           ELSE RDiv(RMul(Int2R(2), Cxy), diff)
  IN  [column0_is_largest |-> diff[1] >= 0, tan2 |-> [n |-> t[1], d |-> t[2]],
       v00_sign |-> IF ~RIsZero(Cxy) /\ diff[1] < 0 THEN -1 ELSE 1]

\* The sum of the nrows x ncols array f, rows and columns 0-based.
grid_sum(nrows, ncols, f) ==
  SumSeq([i \in 1 .. nrows |-> SumSeq([j \in 1 .. ncols |-> f[i - 1][j - 1]])])

\* Lines 172-191.  With S = sum_projection, SX = S * Mx and SY = S * My, the
\* covariances are taken over the common denominator S^3:
\*   Cxx = sum(p * (S x - SX)^2) / S^3, and likewise Cyy and Cxy,
\* which the eigen-decomposition and the angle of its first eigenvector do not
\* depend on.
pca_covariance(nrows, ncols, projection_z, S, SX, SY) ==
  LET DXX == [y \in 0 .. nrows - 1 |-> [x \in 0 .. ncols - 1 |->
                projection_z[y][x] * (S * x - SX) * (S * x - SX)]]
      DYY == [y \in 0 .. nrows - 1 |-> [x \in 0 .. ncols - 1 |->
                projection_z[y][x] * (S * y - SY) * (S * y - SY)]]
      DXY == [y \in 0 .. nrows - 1 |-> [x \in 0 .. ncols - 1 |->
                projection_z[y][x] * (S * x - SX) * (S * y - SY)]]
  IN  linalg_eig(Int2R(grid_sum(nrows, ncols, DXX)), Int2R(grid_sum(nrows, ncols, DXY)),
                 Int2R(grid_sum(nrows, ncols, DYY))).tan2

\* Lines 158-170: the weighted centroid (Mx, My) = (SX / S, SY / S).
pca_centroid(nrows, ncols, projection_z, sum_projection) ==
  LET WX == [y \in 0 .. nrows - 1 |-> [x \in 0 .. ncols - 1 |-> x * projection_z[y][x]]]
      WY == [y \in 0 .. nrows - 1 |-> [x \in 0 .. ncols - 1 |-> y * projection_z[y][x]]]
  IN  pca_covariance(nrows, ncols, projection_z, sum_projection,
                     grid_sum(nrows, ncols, WX), grid_sum(nrows, ncols, WY))

\* calculate_pca_rotation_angle (lines 149-156: the projection along the depth, and
\* the early return of 0.0 for an empty projection).  The projection is taken in
\* units of 1 / den, which the normalization by its own sum cancels.
calculate_pca_rotation_angle(image_yxz) ==
  LET nrows == image_yxz.shape[1]
      ncols == image_yxz.shape[2]
      depth == image_yxz.shape[3]
      projection_z == [y \in 0 .. nrows - 1 |-> [x \in 0 .. ncols - 1 |->
                         SumSeq([k \in 1 .. depth |-> image_yxz.v[<<y, x, k - 1>>]])]]
      sum_projection == grid_sum(nrows, ncols, projection_z)
  IN  IF sum_projection = 0 THEN ZeroAngle
      ELSE pca_centroid(nrows, ncols, projection_z, sum_projection)

\* |sin(2 phi)| >= 9/16, that is 2 (|cos phi| + |sin phi|) >= 2.5: the canvas
\* scipy computes for a rotated 2 x 2 slice, int(ptp + 0.5), is then 3 x 3.
IsSteep(angle) == 175 * angle.n * angle.n >= 81 * angle.d * angle.d

\* scipy.ndimage.rotate(slice, angle, reshape=True, order=1) on the 2-D slice z of
\* image, with mode 'constant' and cval 0: <<rows, cols, den, values>>.
\*  - angle 0: the identity.
\*  - a 2 x 2 slice at any other angle: every output sample but the centre of a
\*    3 x 3 canvas maps outside the input and is 0; the centre maps to the middle
\*    of the slice and is the mean of its four pixels.  An integer output type
\*    stores the sample rounded (t + 0.5, truncated).
\* Every input of the model is of one of these two kinds: its slices are 2 x 2,
\* or it is an ellipsoid whose covariance is diagonal, which gets the angle 0.
ndi_rotate(image, z, angle) ==
  LET rows == image.shape[1]
      cols == image.shape[2]
      four == image.v[<<0, 0, z>>] + image.v[<<0, 1, z>>]
              + image.v[<<1, 0, z>>] + image.v[<<1, 1, z>>]
  IN  IF angle = ZeroAngle
      THEN [rows |-> rows, cols |-> cols, den |-> image.den,
            v |-> [p \in (0 .. rows - 1) \X (0 .. cols - 1) |-> image.v[<<p[1], p[2], z>>]]]
      ELSE IF ~IsSteep(angle)
      THEN [rows |-> 2, cols |-> 2, den |-> image.den,
            v |-> [p \in (0 .. 1) \X (0 .. 1) |-> 0]]
      ELSE IF IsIntegerType(image.dtype)
      THEN [rows |-> 3, cols |-> 3, den |-> image.den,
            v |-> [p \in (0 .. 2) \X (0 .. 2) |->
                     IF p = <<1, 1>> THEN (four + 2 * image.den) \div (4 * image.den)
                     ELSE 0]]
      ELSE [rows |-> 3, cols |-> 3, den |-> 4 * image.den,
            v |-> [p \in (0 .. 2) \X (0 .. 2) |-> IF p = <<1, 1>> THEN four ELSE 0]]

\* rotate_image: the output is allocated with the canvas of the rotated first slice
\* and with the element type of the input, and filled slice by slice.
rotate_image(image_yxz, angle) ==
  LET n_slices == image_yxz.shape[3]
      rotated_first == ndi_rotate(image_yxz, 0, angle)
      shape == <<rotated_first.rows, rotated_first.cols, n_slices>>
  IN  [shape |-> shape,
       dtype |-> image_yxz.dtype,
       den |-> rotated_first.den,
       v |-> [p \in Idx(shape) |-> ndi_rotate(image_yxz, p[3], angle).v[<<p[1], p[2]>>]]]

\* The value logged as "Intensity loss": (1 - sum(rotated) / sum(input)) * 100.
intensity_loss_of(image_rotated, image_yxz) ==
  RMul(RSub(Int2R(1), RDiv(np_sum(image_rotated), np_sum(image_yxz))), Int2R(100))

\* The weighted sum of squared deviations, without the division by the total.
weighted_square_sum(w, n, total) ==
  LET mean == RDiv(RSumSeq([c \in 1 .. n |-> RMul(Int2R(c), w[c])]), total)
  IN  RSumSeq([c \in 1 .. n |-> RMul(RSquare(RSub(Int2R(c), mean)), w[c])])

\* The weighted mean and variance the profiler takes of one slab: the 1-indexed
\* coordinates 1 .. n weighted by w[1 .. n], both normalized by total.
weighted_variance(w, n, total) ==
  LET mean == RDiv(RSumSeq([c \in 1 .. n |-> RMul(Int2R(c), w[c])]), total)
  IN  RDiv(RSumSeq([c \in 1 .. n |-> RMul(RSquare(RSub(Int2R(c), mean)), w[c])]), total)

\* calculate_local_spreads: [MMsum, MMyy, MMzz, xx00], sequences over the iterated
\* axis: the columns when after_90deg_rotation, else the rows.
calculate_local_spreads(image_yxz_rotated, after_90deg_rotation) ==
  LET nrows == image_yxz_rotated.shape[1]
      ncols == image_yxz_rotated.shape[2]
      depth == image_yxz_rotated.shape[3]
      nx == IF after_90deg_rotation THEN ncols ELSE nrows
      ny == IF after_90deg_rotation THEN nrows ELSE ncols
      \* MM[z, y] of position i, 1-indexed
      MM(i, z, y) ==
        IF after_90deg_rotation
        THEN Rat(image_yxz_rotated.v[<<y - 1, i - 1, z - 1>>], image_yxz_rotated.den)
        ELSE Rat(image_yxz_rotated.v[<<i - 1, y - 1, z - 1>>], image_yxz_rotated.den)
      sum_axis1(i) == [z \in 1 .. depth |-> RSumSeq([y \in 1 .. ny |-> MM(i, z, y)])]
      sum_axis0(i) == [y \in 1 .. ny |-> RSumSeq([z \in 1 .. depth |-> MM(i, z, y)])]
      MMsum == [i \in 1 .. nx |-> RSumSeq(sum_axis1(i))]
  IN  [MMsum |-> MMsum,
       MMyy |-> [i \in 1 .. nx |->
                   IF RIsPos(MMsum[i]) THEN weighted_variance(sum_axis0(i), ny, MMsum[i])
                   ELSE NaN],
       MMzz |-> [i \in 1 .. nx |->
                   IF RIsPos(MMsum[i]) THEN weighted_variance(sum_axis1(i), depth, MMsum[i])
                   ELSE NaN],
       xx00 |-> [i \in 1 .. nx |-> i]]

\* A record of "missing" markers (-1) in place of the zeros.
get_missing_results ==
  [spread_x_pixel |-> -1, spread_y_pixel |-> -1, spread_z_pixel |-> -1,
   spread_xy_pixel |-> -1, spread_xyz_pixel |-> -1,
   spread_x_um |-> -1, spread_y_um |-> -1, spread_z_um |-> -1,
   spread_xy_um |-> -1, spread_xyz_um |-> -1,
   axonal_volume |-> -1,
   fluorescence_px |-> -1, fluorescence_um |-> -1,
   rotation_angle |-> [round2 |-> ZeroAngle],
   MMsum |-> <<>>, MMyy |-> <<>>, MMzz |-> <<>>]

\* _get_empty_results
get_empty_results ==
  [spread_x_pixel |-> 0, spread_y_pixel |-> 0, spread_z_pixel |-> 0,
   spread_xy_pixel |-> 0, spread_xyz_pixel |-> 0,
   spread_x_um |-> 0, spread_y_um |-> 0, spread_z_um |-> 0,
   spread_xy_um |-> 0, spread_xyz_um |-> 0,
   axonal_volume |-> 0,
   fluorescence_px |-> 0, fluorescence_um |-> 0,
   rotation_angle |-> [round2 |-> ZeroAngle],
   MMsum |-> <<>>, MMyy |-> <<>>, MMzz |-> <<>>]

\* A conversion that leaves the spread in pixels.
to_um2_unscaled(spread_px2, voxel_size_axis) == spread_px2

\* The conversion applied to the pixel spread already rounded to 2 decimals.
to_um2_rounded(spread_px2, voxel_size_axis) ==
  RMul(RSquare(Rat(Round2Sqrt(spread_px2), Scale)), RSquare(voxel_size_axis))

\* Lines 534-536: spread_um = spread_px * voxel_size, squared.
to_um2(spread_px2, voxel_size_axis) == RMul(spread_px2, RSquare(voxel_size_axis))

\* A combination that adds where the code multiplies.
spread_sum2(a2, b2) == RAdd(a2, b2)

\* Lines 539-543: a combined spread is the product of spreads; squared.
spread_product2(a2, b2) == RMul(a2, b2)

\* calculate_global_spreads.  A spread is a square root; the names ending in 2 are
\* the squares of the code's variables, so that spread_x_px2 = MMxx and a product of
\* spreads is the root of the product of their squares.
calculate_global_spreads(voxel_size, MMsum, MMyy, MMzz, xx00) ==
  LET n == Len(MMsum)
      total_sum == RSumSeq(MMsum)
      MMx == RDiv(RSumSeq([i \in 1 .. n |-> RMul(Int2R(xx00[i]), MMsum[i])]), total_sum)
      MMxx == RDiv(RSumSeq([i \in 1 .. n |->
                      RMul(MMsum[i], RSquare(RSub(Int2R(xx00[i]), MMx)))]), total_sum)
      spread_x_px2 == MMxx
      Total_var_y == RDiv(RNanSumSeq([i \in 1 .. n |-> RMul(MMyy[i], MMsum[i])]), total_sum)
      spread_y_px2 == Total_var_y
      Total_var_z == RDiv(RNanSumSeq([i \in 1 .. n |-> RMul(MMzz[i], MMsum[i])]), total_sum)
      spread_z_px2 == Total_var_z
      spread_x_um2 == to_um2(spread_x_px2, voxel_size[1])
      spread_y_um2 == to_um2(spread_y_px2, voxel_size[2])
      spread_z_um2 == to_um2(spread_z_px2, voxel_size[3])
      spread_xy_px2 == spread_product2(spread_x_px2, spread_y_px2)
      spread_xyz_px2 == spread_product2(spread_product2(spread_x_px2, spread_y_px2),
                                        spread_z_px2)
      spread_xy_um2 == spread_product2(spread_x_um2, spread_y_um2)
      spread_xyz_um2 == spread_product2(spread_product2(spread_x_um2, spread_y_um2),
                                        spread_z_um2)
      axonal_volume == total_sum
  IN  IF RIsZero(total_sum) THEN get_empty_results
      ELSE [spread_x_pixel |-> Round2Sqrt(spread_x_px2),
            spread_y_pixel |-> Round2Sqrt(spread_y_px2),
            spread_z_pixel |-> Round2Sqrt(spread_z_px2),
            spread_xy_pixel |-> Round2Sqrt(spread_xy_px2),
            spread_xyz_pixel |-> Round2Sqrt(spread_xyz_px2),
            spread_x_um |-> Round2Sqrt(spread_x_um2),
            spread_y_um |-> Round2Sqrt(spread_y_um2),
            spread_z_um |-> Round2Sqrt(spread_z_um2),
            spread_xy_um |-> Round2Sqrt(spread_xy_um2),
            spread_xyz_um |-> Round2Sqrt(spread_xyz_um2),
            axonal_volume |-> Round2(axonal_volume),
            MMsum |-> MMsum, MMyy |-> MMyy, MMzz |-> MMzz]

\* ---------------------------------------------- SyntheticVolumeGenerator
\* VolumeSpecs, scaled down: a 3 x 3 field of one slice, 1 um per pixel.
Specs == [nx |-> 3, ny |-> 3, nz |-> 1]
\* demo_pca_rotation: centre (x, y, z) in um and radii (rx, ry, rz) in tenths of um.
DemoCenter == <<1, 1, 0>>
DemoRadii10 == <<12, 5, 5>>
\* The rotations of demo_pca_rotation the pixel grid carries exactly.
DemoRotations == {0, 90}

\* create_ellipsoid(center, radii, smooth_edge=False, rotation_deg): a float32
\* array indexed [z, y, x], 1.0 where the normalized distance is <= 1.  The
\* default smooth edge adds a halo exp(-...) around this core that has the
\* symmetry of the core; it is not modelled.
create_ellipsoid(center_um, radii10, rotation_deg) ==
  LET cos == IF rotation_deg = 0 THEN 1 ELSE 0
      sin == IF rotation_deg = 0 THEN 0 ELSE 1
      shape == <<Specs.nz, Specs.ny, Specs.nx>>
      inside(p) ==
        LET dx0 == p[3] - center_um[1]
            dy0 == p[2] - center_um[2]
            dz == p[1] - center_um[3]
            dx == dx0 * cos + dy0 * sin
            dy == (-dx0) * sin + dy0 * cos
            norm2 == RAdd(RAdd(RSquare(Rat(10 * dx, radii10[1])),
                               RSquare(Rat(10 * dy, radii10[2]))),
                          RSquare(Rat(10 * dz, radii10[3])))
        IN  norm2[1] <= norm2[2]
  IN  [shape |-> shape, dtype |-> "float32", den |-> 1,
       v |-> [p \in Idx(shape) |-> IF inside(p) THEN 1 ELSE 0]]

\* ------------------------------------------------------------------ state
VARIABLES
  voxel_size,        \* the processor: <<voxel_size_x, voxel_size_y, voxel_size_z>>
  image_3d,          \* the volume handed to process_image
  mask_area_pixels,  \* the region area handed to process_image
  source,            \* where image_3d came from: an array, or the generator
  pc,                \* the position of process_image
  image_yxz, fluor, angle, image_rotated, intensity_loss,
  image_rotated_90, profile, spread_results,   \* the locals of process_image
  after_90deg_rotation,  \* the convention calculate_local_spreads is called with
  raised,            \* the message of the ValueError raised, "" when none
  stages,            \* the stages the current call has finished, in order
  call,              \* 1 for the first call of process_image, 2 for the second
  again,             \* how the input of the second call was derived from the first
  first,             \* the input and the outcome of the first call
  csv_file,          \* the output file: Absent, or its rows in order
  csv_file_path,     \* MyMainWindow.csv_file_path, None until load_images set it
  validation,        \* the voxel sizes last entered and what validate_parameters said
  z_range,           \* <<z_start, z_end>> read from the spin boxes by the last process
  masked_image_fluor,  \* the local of process: the fluorescence sub-volume, or None
  wasCanceled,       \* progress.wasCanceled() of the progress dialog of process
  listWidget_images, \* the list: a sequence of [text, background]
  selected,          \* the index of the selected item of the list, 0 when none
  comboBox_channel_selector,   \* its number of items
  comboBox_plasticityChannel,  \* [count, currentIndex, enabled]
  comboBox_fluoChannel,        \* [count, currentIndex, enabled]
  handled,           \* the handler that ran last
  message_box,       \* the titles of the message boxes the last handler showed
  unhandled,         \* the exception that left the last handler, "" when none
  current_image_filepath,    \* None or the path of the image selected
  current_image_data,        \* None or the list of the channel volumes
  original_image_data,       \* the backups: a set of <<channel_index, volume>>
  current_metadata_channel,  \* None or the list of the channel names
  filtered_from,     \* history: <<channel_index, volume before its last filter>>
  roi,               \* None or the handle positions of the PolyLineROI
  creating_roi, temp_points, polygon_points, AArea,
  connections,       \* how many times add_vertex is connected to sigMouseClicked
  complexity_channel, fluor_channel   \* None or the masked copies

output_fields == <<csv_file, csv_file_path>>
run_fields == <<validation, z_range, masked_image_fluor, wasCanceled>>
widget_fields == <<listWidget_images, selected, comboBox_channel_selector,
                   comboBox_plasticityChannel, comboBox_fluoChannel>>
report_fields == <<handled, message_box, unhandled>>
image_fields == <<current_image_filepath, current_image_data, original_image_data,
                  current_metadata_channel, filtered_from>>
roi_fields == <<roi, creating_roi, temp_points, polygon_points, AArea, connections>>
masked_fields == <<complexity_channel, fluor_channel>>

\* The state of the main window, which the processor never touches.
window == <<output_fields, run_fields, widget_fields, report_fields, image_fields,
            roi_fields, masked_fields>>

\* The locals of process_image and the bookkeeping of its calls.
processor == <<voxel_size, image_3d, mask_area_pixels, source, pc, image_yxz, fluor,
               angle, image_rotated, intensity_loss, image_rotated_90, profile,
               spread_results, after_90deg_rotation, raised, stages, call, again,
               first>>

vars == <<processor, window>>

Absent == "absent"
None == "None"
\* None, where the variable otherwise holds a list or an array.
Nothing == <<>>
NoValidation == [sizes |-> <<>>, is_valid |-> FALSE, error_msg |-> "not called"]
\* A combo box of the form before any item was added.
EmptyCombo == [count |-> 0, currentIndex |-> -1, enabled |-> TRUE]

\* MyMainWindow.__init__, lines 628-651.
NewWindow ==
  /\ csv_file_path = None
  /\ validation = NoValidation
  /\ z_range = <<>>
  /\ masked_image_fluor = Nothing
  /\ wasCanceled = FALSE
  /\ listWidget_images = <<>>
  /\ selected = 0
  /\ comboBox_channel_selector = 0
  /\ comboBox_plasticityChannel = EmptyCombo
  /\ comboBox_fluoChannel = EmptyCombo
  /\ handled = ""
  /\ message_box = <<>>
  /\ unhandled = ""
  /\ current_image_filepath = None
  /\ current_image_data = Nothing
  /\ original_image_data = {}
  /\ current_metadata_channel = Nothing
  /\ filtered_from = {}
  /\ roi = Nothing
  /\ creating_roi = FALSE
  /\ temp_points = <<>>
  /\ polygon_points = <<>>
  /\ AArea = 0
  /\ connections = 0
  /\ complexity_channel = Nothing
  /\ fluor_channel = Nothing

\* The window of a run that only uses the processor; no output file exists.
NoWindow ==
  /\ csv_file = Absent
  /\ NewWindow

NoImage == [shape |-> <<0, 0, 0>>, dtype |-> "none", den |-> 1, v |-> <<>>]
NoProfile == [MMsum |-> <<>>, MMyy |-> <<>>, MMzz |-> <<>>, xx00 |-> <<>>]
NoResults == [none |-> TRUE]
NoFirst == [image_3d |-> NoImage, voxel_size |-> <<>>, raised |-> "",
            spread_results |-> NoResults]

VoxelSizes == {<<Rat(1, 2), Rat(1, 4), Int2R(2)>>}
Areas == {3}
InputShapes == {<<2, 2, 1>>, <<1, 2, 2>>, <<2, 2, 2>>, <<2, 1, 1>>}
InputTypes == {"uint8", "float64"}

\* The sequences of n integers >= -1 whose absolute values sum to at most budget.
RECURSIVE Voxels(_, _)
Voxels(n, budget) ==
  IF n = 0 THEN {<<>>}
  ELSE UNION {{Append(s, x) : s \in Voxels(n - 1, budget - Abs(x))} :
              x \in {y \in -1 .. budget : Abs(y) <= budget}}

\* The array of the given shape holding the sequence q in row-major order.
Reshape(q, shape) ==
  [p \in Idx(shape) |->
    q[(p[1] * shape[2] + p[2]) * shape[3] + p[3] + 1]]

Locals0 ==
  /\ pc = "start"
  /\ image_yxz = NoImage
  /\ fluor = <<0, 0>>
  /\ angle = ZeroAngle
  /\ image_rotated = NoImage
  /\ intensity_loss = NaN
  /\ image_rotated_90 = NoImage
  /\ profile = NoProfile
  /\ spread_results = NoResults
  /\ raised = ""
  /\ stages = <<>>

Init ==
  /\ voxel_size \in VoxelSizes
  /\ mask_area_pixels \in Areas
  /\ \/ /\ source = [kind |-> "array", rotation_deg |-> 0]
        /\ \E s \in InputShapes, t \in InputTypes :
             \E q \in Voxels(s[1] * s[2] * s[3], MaxTotal) :
               /\ IsIntegerType(t) => \A i \in DOMAIN q : q[i] >= 0
               /\ image_3d = [shape |-> s, dtype |-> t, den |-> 1,
                              v |-> Reshape(q, s)]
     \/ \E r \in DemoRotations :
          /\ source = [kind |-> "ellipsoid", rotation_deg |-> r]
          /\ image_3d = create_ellipsoid(DemoCenter, DemoRadii10, r)
  /\ Locals0
  /\ after_90deg_rotation = TRUE
  /\ call = 1
  /\ again = ""
  /\ first = NoFirst
  /\ NoWindow

\* ---------------------------------------------------------- process_image
\* Each action is one stage of ImageProcessor.process_image; `Stage(at, name, to)`
\* is the control part: the stage runs at `at`, is recorded, and leaves pc at `to`.
\* A stage that works in place: it leaves the caller's array cleared.
StageInPlace(at, name, to) ==
  /\ pc = at
  /\ pc' = to
  /\ stages' = Append(stages, name)
  /\ image_3d' = [image_3d EXCEPT !.v = [p \in DOMAIN image_3d.v |-> 0]]
  /\ UNCHANGED <<voxel_size, mask_area_pixels, source, after_90deg_rotation,
                 call, again, first, window>>

Stage(at, name, to) ==
  /\ pc = at
  /\ pc' = to
  /\ stages' = Append(stages, name)
  /\ UNCHANGED <<voxel_size, image_3d, mask_area_pixels, source, after_90deg_rotation,
                 call, again, first, window>>

\* Lines 633-640: the axis-layout heuristic.
NormalizeLayout ==
  /\ Stage("start", "normalize", "normalized")
  /\ image_yxz' = IF image_3d.shape[1] < image_3d.shape[3]
                  THEN transpose_120(image_3d)
                  ELSE image_3d
  /\ UNCHANGED <<fluor, angle, image_rotated, intensity_loss, image_rotated_90,
                 profile, spread_results, raised>>

\* Lines 642-644: a negative intensity in the input raises ValueError.
CheckInput ==
  /\ Stage("normalized", "check_input",
           IF any_negative(image_yxz) THEN "raised" ELSE "input_ok")
  /\ raised' = IF any_negative(image_yxz) THEN "Image contains negative values!" ELSE ""
  /\ UNCHANGED <<image_yxz, fluor, angle, image_rotated, intensity_loss,
                 image_rotated_90, profile, spread_results>>

\* Lines 646-648
Fluorescence ==
  /\ Stage("input_ok", "fluorescence", "fluorescence_done")
  /\ fluor' = calculate_fluorescence(voxel_size, image_yxz, mask_area_pixels)
  /\ UNCHANGED <<image_yxz, angle, image_rotated, intensity_loss, image_rotated_90,
                 profile, spread_results, raised>>

\* Lines 650-652
EstimateAngle ==
  /\ Stage("fluorescence_done", "pca_angle", "angle_done")
  /\ angle' = calculate_pca_rotation_angle(image_yxz)
  /\ UNCHANGED <<image_yxz, fluor, image_rotated, intensity_loss, image_rotated_90,
                 profile, spread_results, raised>>

\* Lines 654-656
Rotate ==
  /\ Stage("angle_done", "rotate", "rotated")
  /\ image_rotated' = rotate_image(image_yxz, angle)
  /\ UNCHANGED <<image_yxz, fluor, angle, intensity_loss, image_rotated_90, profile,
                 spread_results, raised>>

\* Lines 658-664: a negative intensity in the rotated volume raises ValueError;
\* otherwise the intensity loss is logged.
CheckRotated ==
  /\ Stage("rotated", "check_rotated",
           IF any_negative(image_rotated) THEN "raised" ELSE "rotated_ok")
  /\ raised' = IF any_negative(image_rotated)
               THEN "Rotated image contains negative values!" ELSE ""
  /\ intensity_loss' = IF any_negative(image_rotated) THEN intensity_loss
                       ELSE intensity_loss_of(image_rotated, image_yxz)
  /\ UNCHANGED <<image_yxz, fluor, angle, image_rotated, image_rotated_90, profile,
                 spread_results>>

\* The turn taken right after the rotation, before the rotated volume is checked.
Turn90Unchecked ==
  /\ Stage("rotated", "rot90", "turned")
  /\ image_rotated_90' = rot90(image_rotated)
  /\ UNCHANGED <<image_yxz, fluor, angle, image_rotated, intensity_loss, profile,
                 spread_results, raised>>

\* Lines 666-669
Turn90 ==
  /\ Stage("rotated_ok", "rot90", "turned")
  /\ image_rotated_90' = rot90(image_rotated)
  /\ UNCHANGED <<image_yxz, fluor, angle, image_rotated, intensity_loss, profile,
                 spread_results, raised>>

\* Lines 674-679: process_image always passes after_90deg_rotation=True.
LocalSpreads ==
  /\ Stage("turned", "local_spreads", "local_done")
  /\ profile' = calculate_local_spreads(image_rotated_90, after_90deg_rotation)
  /\ UNCHANGED <<image_yxz, fluor, angle, image_rotated, intensity_loss,
                 image_rotated_90, spread_results, raised>>

\* Line 680
GlobalSpreads ==
  /\ Stage("local_done", "global_spreads", "global_done")
  /\ spread_results' = calculate_global_spreads(voxel_size, profile.MMsum, profile.MMyy,
                                                profile.MMzz, profile.xx00)
  /\ UNCHANGED <<image_yxz, fluor, angle, image_rotated, intensity_loss,
                 image_rotated_90, profile, raised>>

\* The additional standardization rotation recorded in the result, in degrees.
additional_rotation == 90

\* A return that hands the record of _get_empty_results back as it is.
AttachUnlessEmpty ==
  /\ Stage("global_done", "attach", "returned")
  /\ spread_results' = IF spread_results = get_empty_results THEN spread_results
                       ELSE ("fluorescence_px" :> fluor[1]) @@ ("fluorescence_um" :> fluor[2])
                            @@ ("rotation_angle" :> [round2 |-> angle])
                            @@ ("additional_rotation" :> additional_rotation)
                            @@ spread_results
  /\ UNCHANGED <<image_yxz, fluor, angle, image_rotated, intensity_loss,
                 image_rotated_90, profile, raised>>

\* Lines 686-695: the four assignments into the record, and the return.
Attach ==
  /\ Stage("global_done", "attach", "returned")
  /\ spread_results' = ("fluorescence_px" :> fluor[1]) @@ ("fluorescence_um" :> fluor[2])
                       @@ ("rotation_angle" :> [round2 |-> angle])
                       @@ ("additional_rotation" :> additional_rotation)
                       @@ spread_results
  /\ UNCHANGED <<image_yxz, fluor, angle, image_rotated, intensity_loss,
                 image_rotated_90, profile, raised>>

\* ------------------------------------------------------------ the caller
\* After it returned, process_image is called a second time on the same processor.
Finished == pc = "returned"

SecondCall(mode) ==
  /\ call = 1
  /\ Finished
  /\ call' = 2
  /\ again' = mode
  /\ first' = [image_3d |-> image_3d, voxel_size |-> voxel_size, raised |-> raised,
               spread_results |-> spread_results]
  /\ pc' = "start"
  /\ image_yxz' = NoImage
  /\ fluor' = <<0, 0>>
  /\ angle' = ZeroAngle
  /\ image_rotated' = NoImage
  /\ intensity_loss' = NaN
  /\ image_rotated_90' = NoImage
  /\ profile' = NoProfile
  /\ spread_results' = NoResults
  /\ raised' = ""
  /\ stages' = <<>>
  /\ UNCHANGED <<voxel_size, mask_area_pixels, after_90deg_rotation, window>>

\* ... with the same volume,
CallSame ==
  /\ SecondCall("same")
  /\ UNCHANGED <<image_3d, source>>

\* ... with every voxel of a non-negative volume of positive total doubled,
CallDoubled ==
  /\ ~any_negative(image_3d)
  /\ np_sum(image_3d)[1] > 0
  /\ SecondCall("doubled")
  /\ image_3d' = [image_3d EXCEPT !.v = [p \in DOMAIN image_3d.v |-> 2 * image_3d.v[p]]]
  /\ UNCHANGED source

\* ... with the same ellipsoid generated at another rotation.
CallTurned ==
  /\ source.kind = "ellipsoid"
  /\ SecondCall("turned")
  /\ \E r \in DemoRotations \ {source.rotation_deg} :
       /\ source' = [source EXCEPT !.rotation_deg = r]
       /\ image_3d' = create_ellipsoid(DemoCenter, DemoRadii10, r)

Next ==
  \/ NormalizeLayout
  \/ CheckInput
  \/ Fluorescence
  \/ EstimateAngle
  \/ Rotate
  \/ CheckRotated
  \/ Turn90
  \/ LocalSpreads
  \/ GlobalSpreads
  \/ Attach
  \/ CallSame
  \/ CallDoubled
  \/ CallTurned

Spec == Init /\ [][Next]_vars

\* ------------------------------------------------- the methods on their own
\* A caller uses the public methods directly: it takes the local spread profile
\* of a non-negative volume in either convention, aggregates it, and aggregates
\* it again with a processor that differs in the voxel size of one axis.
DirectShapes == {<<2, 3, 1>>, <<2, 2, 2>>}
DirectAreas == {1, 3, 7}
Factors == {Int2R(2), Int2R(3), Rat(1, 2)}

InitDirect ==
  /\ voxel_size \in VoxelSizes
  /\ mask_area_pixels \in Areas
  /\ source = [kind |-> "array", rotation_deg |-> 0]
  /\ \E s \in DirectShapes :
       \E q \in Voxels(s[1] * s[2] * s[3], MaxDirectTotal) :
         /\ \A i \in DOMAIN q : q[i] >= 0
         /\ image_3d = [shape |-> s, dtype |-> "float64", den |-> 1, v |-> Reshape(q, s)]
  /\ Locals0
  /\ after_90deg_rotation \in BOOLEAN
  /\ call = 1
  /\ again = ""
  /\ first = NoFirst
  /\ NoWindow

DirectFrame ==
  UNCHANGED <<image_3d, source, image_yxz, angle, image_rotated, intensity_loss,
              image_rotated_90, after_90deg_rotation, raised, window>>

\* processor.calculate_fluorescence(image_3d, area)
DirectFluorescence ==
  /\ pc = "start"
  /\ pc' = "fluorescence_done"
  /\ stages' = Append(stages, "fluorescence")
  /\ \E area \in DirectAreas :
       /\ mask_area_pixels' = area
       /\ fluor' = calculate_fluorescence(voxel_size, image_3d, area)
  /\ DirectFrame
  /\ UNCHANGED <<voxel_size, profile, spread_results, call, again, first>>

\* processor.calculate_local_spreads(image_3d, after_90deg_rotation)
DirectLocalSpreads ==
  /\ pc = "start"
  /\ pc' = "local_done"
  /\ stages' = Append(stages, "local_spreads")
  /\ profile' = calculate_local_spreads(image_3d, after_90deg_rotation)
  /\ DirectFrame
  /\ UNCHANGED <<voxel_size, mask_area_pixels, fluor, spread_results, call, again, first>>

\* processor.calculate_global_spreads(MMsum, MMyy, MMzz, xx00)
DirectGlobalSpreads ==
  /\ pc = "local_done"
  /\ pc' = "global_done"
  /\ stages' = Append(stages, "global_spreads")
  /\ spread_results' = calculate_global_spreads(voxel_size, profile.MMsum, profile.MMyy,
                                                profile.MMzz, profile.xx00)
  /\ DirectFrame
  /\ UNCHANGED <<voxel_size, mask_area_pixels, fluor, profile, call, again, first>>

\* The voxel sizes with the one of `axis` multiplied by k.
Rescaled(sizes, axis, k) == [sizes EXCEPT ![axis] = RMul(sizes[axis], k)]

\* ImageProcessor(...) with one voxel size multiplied by a factor, and its
\* calculate_global_spreads on the same profile.
DirectRescaled ==
  /\ pc = "global_done"
  /\ call = 1
  /\ \E axis \in 1 .. 3, k \in Factors :
       /\ voxel_size' = Rescaled(voxel_size, axis, k)
       /\ spread_results' = calculate_global_spreads(Rescaled(voxel_size, axis, k),
                               profile.MMsum, profile.MMyy, profile.MMzz, profile.xx00)
  /\ first' = [image_3d |-> image_3d, voxel_size |-> voxel_size, raised |-> raised,
               spread_results |-> spread_results]
  /\ call' = 2
  /\ again' = "rescaled"
  /\ stages' = <<"global_spreads">>
  /\ DirectFrame
  /\ UNCHANGED <<pc, mask_area_pixels, fluor, profile>>

NextDirect ==
  \/ DirectFluorescence
  \/ DirectLocalSpreads
  \/ DirectGlobalSpreads
  \/ DirectRescaled

SpecDirect == InitDirect /\ [][NextDirect]_vars

\* ------------------------------------------------- callers with a layout
\* The same calls, by callers that know the axis layout of the array they hand
\* over: "YXZ" (rows, columns, slices) or "ZYX" (slices, rows, columns).  The
\* generator indexes its arrays [z, y, x].
Layouts == {"YXZ", "ZYX"}

InitLayout ==
  /\ voxel_size \in VoxelSizes
  /\ mask_area_pixels \in Areas
  /\ \/ \E l \in Layouts, s \in InputShapes :
          \E q \in Voxels(s[1] * s[2] * s[3], MaxDirectTotal) :
            /\ source = [kind |-> "array", rotation_deg |-> 0, layout |-> l]
            /\ image_3d = [shape |-> s, dtype |-> "float64", den |-> 1,
                           v |-> Reshape(q, s)]
     \/ \E r \in DemoRotations :
          /\ source = [kind |-> "ellipsoid", rotation_deg |-> r, layout |-> "ZYX"]
          /\ image_3d = create_ellipsoid(DemoCenter, DemoRadii10, r)
  /\ Locals0
  /\ after_90deg_rotation = TRUE
  /\ call = 1
  /\ again = ""
  /\ first = NoFirst
  /\ NoWindow

SpecLayout == InitLayout /\ [][Next]_vars

\* ------------------------------------------------------- the main window
\* MyMainWindow of MorphoScope.py.  Each action is one handler of the form, run
\* to its end; process is cut at the calls of progress.setValue, where the
\* progress dialog handles the events of the user, and at the stages of
\* process_image.  A row of the output file is the list of fields handed to
\* csv.writer.writerow, which a csv reader gets back field by field.
\* The images are Z x 1 x 1 float volumes: a channel is the sequence of its
\* slices, each slice its one pixel (0, 0).
MaxRows == 3
\* The temp_points the clicks may collect, and the connections of add_vertex.
MaxVertices == 4
MaxConnections == 2

\* validate_parameters, on reals.  (The micro sign of the messages is written u.)
RLeqZero(x) == ~IsNaN(x) /\ x[1] <= 0
RGreater(x, k) == RIsPos(RSub(x, Int2R(k)))
validate_parameters(voxel_size_x, voxel_size_y, voxel_size_z) ==
  IF RLeqZero(voxel_size_x) \/ RLeqZero(voxel_size_y) \/ RLeqZero(voxel_size_z)
  THEN <<FALSE, "All voxel sizes must be positive">>
  ELSE IF RGreater(voxel_size_x, 10) \/ RGreater(voxel_size_y, 10)
  THEN <<FALSE, "XY voxel sizes > 10um seem unusual. Please verify your calibration.">>
  ELSE IF RGreater(voxel_size_z, 50)
  THEN <<FALSE, "Z voxel size > 50um seems unusual. Please verify your z-step.">>
  ELSE <<TRUE, "">>

\* The header row load_images writes.
Header ==
  <<"Image filename", "Spread x [pixel]", "Spread y [pixel]", "Spread z [pixel]",
    "Spread x*y [pixel2]", "Spread x*y*z [pixel3]",
    "Spread x [um]", "Spread y [um]", "Spread z [um]",
    "Spread x*y [um2]", "Spread x*y*z [um3]",
    "Axonal Volume", "Fluorescence_px", "Fluorescence_um", "Observation">>

\* A row with the physical spreads written before the pixel spreads.
results_row_um_first(image_name, results, observation) ==
  <<image_name,
    results.spread_x_um, results.spread_y_um, results.spread_z_um,
    results.spread_xy_um, results.spread_xyz_um,
    results.spread_x_pixel, results.spread_y_pixel, results.spread_z_pixel,
    results.spread_xy_pixel, results.spread_xyz_pixel,
    results.axonal_volume, results.fluorescence_px, results.fluorescence_um,
    [quoted |-> observation]>>

\* The row _save_results_to_csv writes; the observation is wrapped in quotes.
results_row(image_name, results, observation) ==
  <<image_name,
    results.spread_x_pixel, results.spread_y_pixel, results.spread_z_pixel,
    results.spread_xy_pixel, results.spread_xyz_pixel,
    results.spread_x_um, results.spread_y_um, results.spread_z_um,
    results.spread_xy_um, results.spread_xyz_um,
    results.axonal_volume, results.fluorescence_px, results.fluorescence_um,
    [quoted |-> observation]>>

\* What the output file may hold before the session: nothing (no file), an
\* empty file, or the header and a row of an earlier session.
OldRow ==
  <<"old.tif", 50, 50, 0, 25, 0, 25, 13, 0, 3, 0, 400, 133, 1067, [quoted |-> ""]>>
Disk == {Absent, <<>>, <<Header, OldRow>>}

\* The image files of the session and the channels a loader reads from them:
\* a two-channel float TIFF whose second channel has a negative voxel, a
\* one-channel CZI and a one-channel LSM.
Extension ==
  ("/d/a.tif" :> ".tif") @@ ("/d/b.czi" :> ".czi") @@ ("/d/c.lsm" :> ".lsm")
ChannelsOf ==
  ("/d/a.tif" :> << <<1, 3, 0>>, <<-1, 2, 0>> >>) @@ ("/d/b.czi" :> << <<0, 2, 4>> >>)
  @@ ("/d/c.lsm" :> << <<5, 0, 0>> >>)
\* os.path.basename of these paths.
basename ==
  ("/d/a.tif" :> "a.tif") @@ ("/d/b.czi" :> "b.czi") @@ ("/d/c.lsm" :> "c.lsm")

\* Lines 977, 1046: [f"Channel {i+1}" for i in range(num_channels)]
channel_names(num_channels) == SubSeq(<<"Channel 1", "Channel 2">>, 1, num_channels)

\* The positions of the clicks: with the pixel (0, 0) on no edge between them,
\* and every triangle of them of a whole area.
ClickA == <<-1, -1>>
ClickB == <<3, -1>>
ClickC == <<-1, 2>>
ClickD == <<3, 5>>

\* The voxel sizes typed into the three line edits.
EnteredX == {Int2R(-1), Rat(1, 2), Int2R(10), Int2R(11)}
EnteredY == {Int2R(0), Rat(1, 4)}
EnteredZ == {Int2R(2), Int2R(51)}
Observations == {"", "a, b"}

\* The locals of a run of process are gone once it has returned: the next
\* handler finds none of them.
NoRun ==
  /\ image_3d' = NoImage
  /\ image_yxz' = NoImage
  /\ fluor' = <<0, 0>>
  /\ angle' = ZeroAngle
  /\ image_rotated' = NoImage
  /\ intensity_loss' = NaN
  /\ image_rotated_90' = NoImage
  /\ profile' = NoProfile
  /\ spread_results' = NoResults
  /\ raised' = ""
  /\ stages' = <<>>
  /\ validation' = NoValidation
  /\ z_range' = <<>>
  /\ masked_image_fluor' = Nothing
  /\ wasCanceled' = FALSE

\* The processor is idle while the handlers of the form run.
ProcessorIdle ==
  /\ pc = "idle"
  /\ NoRun
  /\ UNCHANGED <<voxel_size, mask_area_pixels, source, pc, after_90deg_rotation,
                 call, again, first>>

\* The window after construction, with no image processed.
WindowCreated ==
  /\ voxel_size \in VoxelSizes
  /\ mask_area_pixels \in Areas
  /\ source = [kind |-> "window", rotation_deg |-> 0]
  /\ image_3d = NoImage
  /\ pc = "idle"
  /\ image_yxz = NoImage
  /\ fluor = <<0, 0>>
  /\ angle = ZeroAngle
  /\ image_rotated = NoImage
  /\ intensity_loss = NaN
  /\ image_rotated_90 = NoImage
  /\ profile = NoProfile
  /\ spread_results = NoResults
  /\ raised = ""
  /\ stages = <<>>
  /\ after_90deg_rotation = TRUE
  /\ call = 1
  /\ again = ""
  /\ first = NoFirst
  /\ NewWindow

InitWindow ==
  /\ WindowCreated
  /\ csv_file \in Disk

\* What a handler leaves for the user: the titles of the message boxes it showed
\* and the exception that left it.
Reports(handler, titles, exception) ==
  /\ handled' = handler
  /\ message_box' = titles
  /\ unhandled' = exception

\* load_images, lines 680-778, with files selected and a file name given: the
\* path is kept, the header is written when the file did not exist, and the
\* files not yet in the list are added to it.
load_images_of(Selections) ==
  /\ ProcessorIdle
  /\ \E file_paths \in Selections :
       LET existing_files == {listWidget_images[i].text : i \in DOMAIN listWidget_images}
           IsNew(fp) == fp \notin existing_files
           new_files == SelectSeq(file_paths, IsNew)
       IN  /\ csv_file_path' = "out.csv"
           /\ LET file_exists == csv_file # Absent
              IN  csv_file' = IF ~file_exists THEN <<Header>> ELSE csv_file
           /\ listWidget_images' =
                listWidget_images \o [i \in 1 .. Len(new_files) |->
                                        [text |-> new_files[i], background |-> ""]]
           /\ Reports("load_images",
                      IF new_files = <<>> THEN <<"No New Files">> ELSE <<"Images Loaded">>,
                      "")
  /\ UNCHANGED <<selected, comboBox_channel_selector,
                 comboBox_plasticityChannel, comboBox_fluoChannel, image_fields,
                 roi_fields, masked_fields>>

\* on_image_selected, lines 1152-1269, for the item i the user selects; the
\* loader reads the file or fails.  _load_czi raises again what it caught
\* (lines 873-878), _load_tif and _load_lsm only show it (lines 988-994,
\* 1057-1063), and then line 1217 hands None to addItems.
on_image_selected_with(Outcomes) ==
  /\ ProcessorIdle
  /\ \E i \in DOMAIN listWidget_images, loads \in Outcomes :
       LET selected_file == listWidget_images[i].text
           channels == ChannelsOf[selected_file]
           n == Len(channels)
           prev_index_plasticity == comboBox_plasticityChannel.currentIndex
           prev_index_fluo == comboBox_fluoChannel.currentIndex
           prev_channel_count == comboBox_plasticityChannel.count
           raises_again == Extension[selected_file] = ".czi"
       IN  /\ i # selected
           /\ selected' = i
           /\ current_image_filepath' = selected_file
           /\ original_image_data' = {}
           /\ filtered_from' = {}
           /\ creating_roi' = FALSE
           /\ temp_points' = <<>>
           /\ roi' = Nothing
           /\ current_image_data' = IF loads THEN channels ELSE Nothing
           /\ current_metadata_channel' = IF loads THEN channel_names(n) ELSE Nothing
           /\ IF loads
              THEN /\ comboBox_channel_selector' = n
                   /\ comboBox_plasticityChannel' =
                        [count |-> n,
                         currentIndex |->
                           IF /\ prev_channel_count = n
                              /\ 0 <= prev_index_plasticity
                              /\ prev_index_plasticity < n
                           THEN prev_index_plasticity ELSE 0,
                         enabled |-> TRUE]
                   /\ comboBox_fluoChannel' =
                        [count |-> n + 1,
                         currentIndex |->
                           IF /\ prev_channel_count = n
                              /\ 0 <= prev_index_fluo + 1
                              /\ prev_index_fluo + 1 < n + 1
                           THEN prev_index_fluo ELSE 0,
                         enabled |-> TRUE]
                   /\ Reports("on_image_selected",
                              IF Extension[selected_file] = ".tif" THEN <<"TIF Loaded">>
                              ELSE IF Extension[selected_file] = ".lsm" THEN <<"LSM Loaded">>
                              ELSE <<>>,
                              "")
              ELSE IF raises_again
              THEN /\ UNCHANGED <<comboBox_channel_selector, comboBox_plasticityChannel,
                                  comboBox_fluoChannel>>
                   /\ Reports("on_image_selected", <<"Error Loading Image">>, "")
              ELSE /\ comboBox_channel_selector' = 0
                   /\ comboBox_plasticityChannel' =
                        [comboBox_plasticityChannel EXCEPT !.enabled = TRUE]
                   /\ comboBox_fluoChannel' = [comboBox_fluoChannel EXCEPT !.enabled = TRUE]
                   /\ Reports("on_image_selected",
                              IF Extension[selected_file] = ".tif"
                              THEN <<"Error Loading TIF">> ELSE <<"Error Loading LSM">>,
                              "TypeError")
  /\ UNCHANGED <<output_fields, listWidget_images, polygon_points, AArea,
                 connections, masked_fields>>

\* reset_image_data, lines 1125-1131, as on_image_selected runs it when the
\* selection of the list is taken away.
reset_image_data ==
  /\ current_image_filepath' = None
  /\ current_image_data' = Nothing
  /\ original_image_data' = {}
  /\ current_metadata_channel' = Nothing

\* The user picks the plasticity and the fluorescence channel in the two combo
\* boxes on_image_selected filled (lines 1212-1236); apply_roi_mask locks them.
choose_channels_of(Choices) ==
  /\ ProcessorIdle
  /\ comboBox_plasticityChannel.enabled
  /\ comboBox_fluoChannel.enabled
  /\ \E c \in Choices :
       /\ c[1] \in 0 .. comboBox_plasticityChannel.count - 1
       /\ c[2] \in 0 .. comboBox_fluoChannel.count - 1
       /\ c # <<comboBox_plasticityChannel.currentIndex, comboBox_fluoChannel.currentIndex>>
       /\ comboBox_plasticityChannel' =
            [comboBox_plasticityChannel EXCEPT !.currentIndex = c[1]]
       /\ comboBox_fluoChannel' = [comboBox_fluoChannel EXCEPT !.currentIndex = c[2]]
  /\ UNCHANGED <<output_fields, listWidget_images, selected,
                 comboBox_channel_selector, report_fields, image_fields, roi_fields,
                 masked_fields>>

\* clean_list, lines 1084-1116.  QListWidget.clear() clears the selection first,
\* so with an item selected itemSelectionChanged runs on_image_selected, which
\* resets the image data and returns at line 1157.
clean_list ==
  /\ ProcessorIdle
  /\ listWidget_images' = <<>>
  /\ selected' = 0
  /\ IF selected # 0 THEN reset_image_data
     ELSE /\ current_image_data' = Nothing
          /\ original_image_data' = {}
          /\ current_metadata_channel' = Nothing
          /\ UNCHANGED current_image_filepath
  /\ filtered_from' = {}
  /\ comboBox_plasticityChannel' = [comboBox_plasticityChannel EXCEPT !.enabled = TRUE]
  /\ comboBox_fluoChannel' = [comboBox_fluoChannel EXCEPT !.enabled = TRUE]
  /\ creating_roi' = FALSE
  /\ temp_points' = <<>>
  /\ roi' = Nothing
  /\ Reports("clean_list", <<>>, "")
  /\ UNCHANGED <<output_fields, comboBox_channel_selector, polygon_points,
                 AArea, connections, masked_fields>>

\* enable_polygonal_roi_creation, lines 1489-1512: pushButton_roi is disabled
\* while creating_roi, and every run connects add_vertex once more.
enable_polygonal_roi_creation ==
  /\ ProcessorIdle
  /\ ~creating_roi
  /\ connections < MaxConnections
  /\ creating_roi' = TRUE
  /\ temp_points' = <<>>
  /\ connections' = connections + 1
  /\ Reports("enable_polygonal_roi_creation", <<>>, "")
  /\ UNCHANGED <<output_fields, widget_fields, image_fields, roi,
                 polygon_points, AArea, masked_fields>>

\* add_vertex, lines 1530-1545, as a function of the list of points.
add_vertex(points, img_pos) ==
  IF ~creating_roi THEN points ELSE Append(points, img_pos)

\* sigMouseClicked calls every connected slot in turn.
RECURSIVE emit(_, _, _)
emit(points, img_pos, slots) ==
  IF slots = 0 THEN points ELSE emit(add_vertex(points, img_pos), img_pos, slots - 1)

\* A click in the view, once add_vertex is connected.
sigMouseClicked_at(Positions) ==
  /\ ProcessorIdle
  /\ connections > 0
  /\ creating_roi => Len(temp_points) + connections <= MaxVertices
  /\ \E img_pos \in Positions : temp_points' = emit(temp_points, img_pos, connections)
  /\ Reports("sigMouseClicked", <<>>, "")
  /\ UNCHANGED <<output_fields, widget_fields, image_fields, roi,
                 creating_roi, polygon_points, AArea, connections, masked_fields>>

\* handle_key_press, lines 1562-1591, installed as keyPressEvent of the view by
\* enable_polygonal_roi_creation.
RemoveKeys == {"Backspace", "Delete", "Space", "Left"}
handle_key_press_of(Keys) ==
  /\ ProcessorIdle
  /\ connections > 0
  /\ \E key \in Keys :
       IF key \in RemoveKeys
       THEN /\ temp_points' = IF temp_points # <<>>
                              THEN SubSeq(temp_points, 1, Len(temp_points) - 1)
                              ELSE temp_points
            /\ UNCHANGED creating_roi
       ELSE IF key = "Escape"
       THEN /\ creating_roi' = FALSE
            /\ temp_points' = <<>>
       ELSE UNCHANGED <<creating_roi, temp_points>>
  /\ Reports("handle_key_press", <<>>, "")
  /\ UNCHANGED <<output_fields, widget_fields, image_fields, roi,
                 polygon_points, AArea, connections, masked_fields>>

\* shapely Polygon(polygon).area for a closed ring of points: half the absolute
\* value of the shoelace sum.
PolygonArea(polygon) ==
  Abs(SumSeq([i \in 1 .. Len(polygon) - 1 |->
                polygon[i][1] * polygon[i + 1][2] - polygon[i + 1][1] * polygon[i][2]]))
    \div 2

\* matplotlib Path.contains_point for a point on no edge: the ray to the right
\* of the point crosses an odd number of edges.
Crosses(point, a, b) ==
  /\ (a[2] > point[2]) # (b[2] > point[2])
  /\ IF b[2] > a[2]
     THEN (point[1] - a[1]) * (b[2] - a[2]) < (point[2] - a[2]) * (b[1] - a[1])
     ELSE (point[1] - a[1]) * (b[2] - a[2]) > (point[2] - a[2]) * (b[1] - a[1])
contains_point(polygon, point) ==
  Cardinality({i \in 1 .. Len(polygon) - 1 :
                 Crosses(point, polygon[i], polygon[i + 1])}) % 2 = 1

\* Lines 1693-1708: a copy of the channel, set to zero outside the mask; the
\* mask of the one pixel (0, 0) is the same in every slice.
masked_copy(channel_image, polygon) ==
  [z \in 1 .. Len(channel_image) |->
     IF contains_point(polygon, <<0, 0>>) THEN channel_image[z] ELSE 0]

\* The vertices taken for a new region whenever three points or more were
\* collected, even while a region exists.
roi_vertices_newest(existing_roi, closed_points, points) ==
  IF existing_roi = Nothing THEN closed_points
  ELSE IF Len(points) >= 3 THEN Append(points, points[1])
  ELSE existing_roi

\* Lines 1635-1662: the handle positions of self.roi, which is the region that
\* exists or, when there is none, a PolyLineROI of the points collected.
roi_vertices(existing_roi, closed_points, points) ==
  IF existing_roi = Nothing THEN closed_points ELSE existing_roi

\* apply_roi_mask, lines 1635-1738.
apply_roi_mask ==
  /\ ProcessorIdle
  /\ IF roi = Nothing /\ Len(temp_points) < 3
     THEN /\ Reports("apply_roi_mask", <<"No ROI">>, "")
          /\ UNCHANGED <<comboBox_plasticityChannel, comboBox_fluoChannel, roi_fields,
                         masked_fields>>
     ELSE LET closed == IF roi = Nothing THEN Append(temp_points, temp_points[1])
                        ELSE temp_points
              vertices == roi_vertices(roi, closed, temp_points)
              polygon == Append(vertices, vertices[1])
              plasticity_channel_index == comboBox_plasticityChannel.currentIndex
              fluo_channel_index == comboBox_fluoChannel.currentIndex
              loaded == current_image_data # Nothing
              plasticity_ok == /\ loaded
                               /\ 0 <= plasticity_channel_index
                               /\ plasticity_channel_index < Len(current_image_data)
              fluo_ok == /\ 0 < fluo_channel_index
                         /\ fluo_channel_index <= Len(current_image_data)
          IN  /\ temp_points' = closed
              /\ roi' = vertices
              /\ creating_roi' = FALSE
              /\ AArea' = PolygonArea(polygon)
              /\ polygon_points' = vertices
              /\ UNCHANGED connections
              /\ comboBox_plasticityChannel' =
                   [comboBox_plasticityChannel EXCEPT !.enabled = FALSE]
              /\ comboBox_fluoChannel' = [comboBox_fluoChannel EXCEPT !.enabled = FALSE]
              /\ complexity_channel' =
                   IF plasticity_ok
                   THEN masked_copy(current_image_data[plasticity_channel_index + 1],
                                    polygon)
                   ELSE complexity_channel
              /\ fluor_channel' =
                   IF ~plasticity_ok THEN fluor_channel
                   ELSE IF fluo_channel_index = 0 THEN Nothing
                   ELSE IF fluo_ok
                   THEN masked_copy(current_image_data[fluo_channel_index], polygon)
                   ELSE fluor_channel
              /\ Reports("apply_roi_mask",
                         IF loaded /\ (~plasticity_ok \/ (fluo_channel_index # 0 /\ ~fluo_ok))
                         THEN <<"Invalid Channel">> ELSE <<>>,
                         IF loaded THEN "" ELSE "TypeError")
  /\ UNCHANGED <<output_fields, listWidget_images, selected,
                 comboBox_channel_selector, image_fields>>

\* The channel a filter button works on: 'chP' the plasticity channel, 'chF'
\* the fluorescence channel, whose combo box has "No channel" first.
channel_index_of(channel) ==
  IF channel = "chP" THEN comboBox_plasticityChannel.currentIndex
  ELSE comboBox_fluoChannel.currentIndex - 1

RECURSIVE np_max(_)
np_max(image) ==
  IF Len(image) = 1 THEN image[1]
  ELSE LET m == np_max(Tail(image))
       IN  IF image[1] > m THEN image[1] ELSE m

\* Lines 1375-1385: image[image <= (threshold / 100.0) * max_val] = 0
threshold_filter(image, threshold) ==
  [z \in 1 .. Len(image) |->
     IF image[z] * 100 <= threshold * np_max(image) THEN 0 ELSE image[z]]

HasBackup(channel_index) == \E b \in original_image_data : b[1] = channel_index
BackupOf(channel_index) ==
  (CHOOSE b \in original_image_data : b[1] = channel_index)[2]

\* apply_selected_filter, lines 1340-1418, with "Threshold" selected in the
\* filter combo box and the percentage confirmed in the dialog.
apply_selected_filter_of(Channels, Percentages) ==
  /\ ProcessorIdle
  /\ \E channel \in Channels, threshold \in Percentages :
       LET channel_index == channel_index_of(channel)
       IN  IF current_image_data = Nothing
           THEN /\ Reports("apply_selected_filter", <<>>, "TypeError")
                /\ UNCHANGED <<current_image_data, original_image_data, filtered_from>>
           ELSE IF ~(0 <= channel_index /\ channel_index < Len(current_image_data))
           THEN /\ Reports("apply_selected_filter", <<"Invalid Channel">>, "")
                /\ UNCHANGED <<current_image_data, original_image_data, filtered_from>>
           ELSE LET image == current_image_data[channel_index + 1]
                IN  /\ original_image_data' =
                         IF HasBackup(channel_index) THEN original_image_data
                         ELSE original_image_data \cup {<<channel_index, image>>}
                    /\ filtered_from' =
                         {h \in filtered_from : h[1] # channel_index}
                           \cup {<<channel_index, image>>}
                    /\ current_image_data' =
                         [current_image_data EXCEPT ![channel_index + 1] =
                            threshold_filter(image, threshold)]
                    /\ Reports("apply_selected_filter", <<>>, "")
  /\ UNCHANGED <<output_fields, widget_fields, current_image_filepath,
                 current_metadata_channel, roi_fields, masked_fields>>

\* undo_filter, lines 1437-1466.
undo_filter_of(Channels) ==
  /\ ProcessorIdle
  /\ \E channel \in Channels :
       LET channel_index == channel_index_of(channel)
       IN  IF ~HasBackup(channel_index)
           THEN /\ Reports("undo_filter", <<"No Backup">>, "")
                /\ UNCHANGED <<current_image_data, original_image_data>>
           ELSE /\ current_image_data' =
                     [current_image_data EXCEPT ![channel_index + 1] =
                        BackupOf(channel_index)]
                /\ original_image_data' =
                     original_image_data \ {<<channel_index, BackupOf(channel_index)>>}
                /\ Reports("undo_filter", <<>>, "")
  /\ UNCHANGED <<output_fields, widget_fields, current_image_filepath,
                 current_metadata_channel, filtered_from, roi_fields, masked_fields>>

\* _validate_processing_parameters, lines 1988-2056: the title of the warning
\* it shows, "" when it returns True.
validate_processing_parameters(z_start, z_end, voxel_x, voxel_y, voxel_z) ==
  IF complexity_channel = Nothing THEN "No Image"
  ELSE IF Len(polygon_points) < 3 THEN "No ROI"
  ELSE IF AArea <= 0 THEN "Invalid ROI"
  ELSE IF z_start >= z_end THEN "Invalid Z Range"
  ELSE IF z_end > Len(complexity_channel) THEN "Invalid Z Range"
  ELSE IF RLeqZero(voxel_x) \/ RLeqZero(voxel_y) \/ RLeqZero(voxel_z)
  THEN "Invalid Voxel Size"
  ELSE ""

\* volume[z_start:z_end + 1, :, :] for 0 <= z_start: the slices past the end
\* are left out.
z_slice(volume, z_start, z_end) ==
  LET last == IF z_end + 1 < Len(volume) THEN z_end + 1 ELSE Len(volume)
  IN  IF z_start >= last THEN <<>> ELSE SubSeq(volume, z_start + 1, last)

\* A Z x 1 x 1 float64 array of the processor.
AsArray(volume) ==
  [shape |-> <<Len(volume), 1, 1>>, dtype |-> "float64", den |-> 1,
   v |-> Reshape(volume, <<Len(volume), 1, 1>>)]

\* process, lines 1790-1841, to the progress dialog at setValue(15): the two
\* validations of what the spin boxes and the line edits hold.
process_on(Entered) ==
  /\ pc = "idle"
  /\ csv_file = Absent \/ Len(csv_file) < MaxRows
  /\ \E e \in Entered :
       LET x == e[1]
           y == e[2]
           z == e[3]
           range == e[4]
           refused == validate_processing_parameters(range[1], range[2], x, y, z)
           answer == validate_parameters(x, y, z)
       IN  IF refused # ""
           THEN /\ validation' = NoValidation
                /\ z_range' = <<>>
                /\ Reports("process", <<refused>>, "")
                /\ UNCHANGED pc
           ELSE /\ z_range' = range
                /\ validation' = [sizes |-> <<x, y, z>>, is_valid |-> answer[1],
                                  error_msg |-> answer[2]]
                /\ Reports("process",
                           IF answer[1] THEN <<>> ELSE <<"Invalid Voxel Sizes">>, "")
                /\ pc' = IF answer[1] THEN "progress_15" ELSE "idle"
  /\ wasCanceled' = FALSE
  /\ masked_image_fluor' = Nothing
  /\ image_3d' = NoImage
  /\ image_yxz' = NoImage
  /\ fluor' = <<0, 0>>
  /\ angle' = ZeroAngle
  /\ image_rotated' = NoImage
  /\ intensity_loss' = NaN
  /\ image_rotated_90' = NoImage
  /\ profile' = NoProfile
  /\ spread_results' = NoResults
  /\ raised' = ""
  /\ stages' = <<>>
  /\ UNCHANGED <<voxel_size, mask_area_pixels, source, after_90deg_rotation, call,
                 again, first, output_fields, widget_fields, image_fields, roi_fields,
                 masked_fields>>

\* The user presses Cancel; the dialog takes the click inside setValue: at
\* setValue(5) and (15), at (30) and (40) before process_image is called, and
\* at (70), (80) and (90) after it returned.
cancel ==
  /\ pc \in {"progress_15", "start", "progress_90"}
  /\ source.kind = "window"
  /\ ~wasCanceled
  /\ wasCanceled' = TRUE
  /\ UNCHANGED <<processor, output_fields, validation, z_range, masked_image_fluor,
                 widget_fields, report_fields, image_fields, roi_fields, masked_fields>>

\* The Z range cut from the channel on display, not from its masked copy.
complexity_subset_of_display(z_start, z_end) ==
  IF current_image_data = Nothing THEN z_slice(complexity_channel, z_start, z_end)
  ELSE z_slice(current_image_data[comboBox_plasticityChannel.currentIndex + 1],
               z_start, z_end)

\* Line 2098: complexity_subset = self.complexity_channel[z_start:z_end+1, :, :]
complexity_subset(z_start, z_end) == z_slice(complexity_channel, z_start, z_end)

\* Lines 1846-1876: _prepare_masked_images, the first look at wasCanceled, and
\* the processor with the sizes entered.
prepare_masked_images ==
  /\ pc = "progress_15"
  /\ IF wasCanceled
     THEN /\ pc' = "idle"
          /\ stages' = Append(stages, "canceled")
          /\ UNCHANGED <<voxel_size, image_3d, mask_area_pixels, masked_image_fluor>>
     ELSE /\ pc' = "start"
          /\ UNCHANGED stages
          /\ image_3d' = AsArray(complexity_subset(z_range[1], z_range[2]))
          /\ masked_image_fluor' =
               IF fluor_channel = Nothing THEN Nothing
               ELSE z_slice(fluor_channel, z_range[1], z_range[2])
          /\ voxel_size' = validation.sizes
          /\ mask_area_pixels' = AArea
  /\ UNCHANGED <<source, image_yxz, fluor, angle, image_rotated, intensity_loss,
                 image_rotated_90, profile, spread_results, after_90deg_rotation,
                 raised, call, again, first, output_fields, validation, z_range,
                 wasCanceled, widget_fields, report_fields, image_fields, roi_fields,
                 masked_fields>>

\* Lines 1886-1908, after process_image returned: the second look at
\* wasCanceled, then the fluorescence of the second channel, if one is
\* selected, in place of the one process_image computed.
process_returned ==
  /\ pc = "returned"
  /\ IF wasCanceled
     THEN /\ pc' = "idle"
          /\ stages' = Append(stages, "canceled")
          /\ UNCHANGED spread_results
     ELSE /\ pc' = "progress_90"
          /\ stages' = Append(stages, "fluorescence_channel")
          /\ spread_results' =
               IF masked_image_fluor = Nothing THEN spread_results
               ELSE LET f == calculate_fluorescence(voxel_size,
                                                    AsArray(masked_image_fluor), AArea)
                    IN  ("fluorescence_px" :> f[1]) @@ ("fluorescence_um" :> f[2])
                        @@ spread_results
  /\ UNCHANGED <<voxel_size, image_3d, mask_area_pixels, source, image_yxz, fluor,
                 angle, image_rotated, intensity_loss, image_rotated_90, profile,
                 after_90deg_rotation, raised, call, again, first, window>>

\* _update_ui_after_processing, lines 2276-2283: the background of the item
\* selected.
update_ui_after_processing(color) ==
  IF selected = 0 THEN listWidget_images
  ELSE [listWidget_images EXCEPT ![selected].background = color]

\* Lines 1920-1946: _save_results_to_csv (lines 2211-2253), which shows what
\* goes wrong and returns, _update_ui_after_processing(success=True) and the
\* success message.  Writing the row succeeds or fails.
save_results_to_csv_with(Notes, Outcomes) ==
  /\ pc = "progress_90"
  /\ pc' = "idle"
  /\ \E observation \in Notes, written \in Outcomes :
       LET saved == /\ csv_file_path # None
                    /\ current_image_filepath # None
                    /\ written
       IN  /\ csv_file' =
                IF ~saved THEN csv_file
                ELSE Append(IF csv_file = Absent THEN <<>> ELSE csv_file,
                            results_row(basename[current_image_filepath],
                                        spread_results, observation))
           /\ stages' = Append(stages, IF saved THEN "save" ELSE "save_error")
           /\ Reports("process",
                      IF saved THEN <<"Processing Complete">>
                      ELSE IF csv_file_path = None
                      THEN <<"No Output File", "Processing Complete">>
                      ELSE <<"Save Error", "Processing Complete">>,
                      "")
  /\ listWidget_images' = update_ui_after_processing("lightgreen")
  /\ UNCHANGED <<voxel_size, image_3d, mask_area_pixels, source, image_yxz, fluor,
                 angle, image_rotated, intensity_loss, image_rotated_90, profile,
                 spread_results, after_90deg_rotation, raised, call, again, first,
                 csv_file_path, run_fields, selected, comboBox_channel_selector,
                 comboBox_plasticityChannel, comboBox_fluoChannel, image_fields,
                 roi_fields, masked_fields>>

\* Lines 1952-1965: an error raised by process_image ends process; nothing is
\* saved and the item is marked as failed.
process_error ==
  /\ pc = "raised"
  /\ pc' = "idle"
  /\ stages' = Append(stages, "error")
  /\ listWidget_images' = update_ui_after_processing("#FB889A")
  /\ Reports("process", <<"Processing Error">>, "")
  /\ UNCHANGED <<voxel_size, image_3d, mask_area_pixels, source, image_yxz, fluor,
                 angle, image_rotated, intensity_loss, image_rotated_90, profile,
                 spread_results, after_90deg_rotation, raised, call, again, first,
                 output_fields, run_fields, selected, comboBox_channel_selector,
                 comboBox_plasticityChannel, comboBox_fluoChannel, image_fields,
                 roi_fields, masked_fields>>

\* The user draws the triangle A, B, C, one click for each vertex.
TriangleABC == <<ClickA, ClickB, ClickC>>
draw_triangle ==
  sigMouseClicked_at(IF Len(temp_points) < 3 THEN {TriangleABC[Len(temp_points) + 1]}
                     ELSE {})

\* A session with one image: the user lists it, selects it, picks the channels,
\* draws a region, applies it, and processes the image with the sizes and the
\* Z range typed in; the progress dialog may be canceled and the row may fail
\* to be written.
\* What is typed in: any of the voxel sizes with the whole stack, or sizes that
\* pass with any of the Z ranges.
Entered ==
  {<<x, y, z, <<0, 2>> >> : x \in EnteredX, y \in EnteredY, z \in EnteredZ}
    \cup {<<Rat(1, 2), Rat(1, 4), Int2R(2), range>> :
             range \in {<<0, 2>>, <<1, 3>>, <<2, 2>>, <<0, 4>>}}
load_images == load_images_of({<<"/d/a.tif">>})
on_image_selected == on_image_selected_with({TRUE})
choose_channels == choose_channels_of({<<0, 0>>, <<1, 0>>, <<0, 2>>})
process == process_on(Entered)
save_results_to_csv == save_results_to_csv_with(Observations, BOOLEAN)

\* A session in which the user draws regions on one image: clicks that go
\* round the triangle A, B, C or hit D, the keys, Apply, Clean.
click == sigMouseClicked_at({TriangleABC[(Len(temp_points) % 3) + 1], ClickD})
handle_key_press == handle_key_press_of(RemoveKeys \cup {"Escape"})

InitRoi ==
  /\ WindowCreated
  /\ csv_file = Absent

NextRoi ==
  \/ load_images
  \/ on_image_selected
  \/ enable_polygonal_roi_creation
  \/ click
  \/ handle_key_press
  \/ apply_roi_mask
  \/ clean_list

SpecRoi == InitRoi /\ [][NextRoi]_vars

\* A session in which the user filters the channels of one image and takes
\* the filters back.
apply_selected_filter == apply_selected_filter_of({"chP", "chF"}, {50, 100})
undo_filter == undo_filter_of({"chP", "chF"})
choose_fluorescence == choose_channels_of({<<0, 0>>, <<1, 0>>, <<0, 1>>})

NextUndo ==
  \/ load_images
  \/ on_image_selected
  \/ choose_fluorescence
  \/ apply_selected_filter
  \/ undo_filter
  \/ clean_list

SpecUndo == InitRoi /\ [][NextUndo]_vars

\* A session in which the user filters the plasticity channel of one image,
\* before and after a region is applied, and processes the image with sizes
\* that pass.
process_whole_stack == process_on({<<Rat(1, 2), Rat(1, 4), Int2R(2), <<0, 2>> >>})
save_results == save_results_to_csv_with({""}, {TRUE})

NextFilter ==
  \/ load_images
  \/ on_image_selected
  \/ choose_fluorescence
  \/ apply_selected_filter_of({"chP"}, {50})
  \/ undo_filter_of({"chP"})
  \/ enable_polygonal_roi_creation
  \/ draw_triangle
  \/ apply_roi_mask
  \/ process_whole_stack
  \/ prepare_masked_images
  \/ NormalizeLayout
  \/ CheckInput
  \/ Fluorescence
  \/ EstimateAngle
  \/ Rotate
  \/ CheckRotated
  \/ Turn90
  \/ LocalSpreads
  \/ GlobalSpreads
  \/ Attach
  \/ process_returned
  \/ save_results
  \/ process_error

\* The output file exists, with the rows of an earlier session.
InitFilter ==
  /\ WindowCreated
  /\ csv_file = <<Header, OldRow>>

SpecFilter == InitFilter /\ [][NextFilter]_vars

\* A session with three images, one of each format: the user lists them,
\* selects one after the other, a file may fail to load, and Clean empties the
\* list; regions are drawn and applied and images processed as above.

NextSession ==
  \/ load_images_of({<<"/d/a.tif", "/d/b.czi", "/d/c.lsm">>})
  \/ on_image_selected_with(BOOLEAN)
  \/ choose_channels_of({<<0, 0>>, <<1, 0>>})
  \/ clean_list
  \/ enable_polygonal_roi_creation
  \/ draw_triangle
  \/ apply_roi_mask
  \/ process_whole_stack
  \/ prepare_masked_images
  \/ NormalizeLayout
  \/ CheckInput
  \/ Fluorescence
  \/ EstimateAngle
  \/ Rotate
  \/ CheckRotated
  \/ Turn90
  \/ LocalSpreads
  \/ GlobalSpreads
  \/ Attach
  \/ process_returned
  \/ save_results
  \/ process_error

SpecSession == InitFilter /\ [][NextSession]_vars

NextWindow ==
  \/ load_images
  \/ on_image_selected
  \/ choose_channels
  \/ enable_polygonal_roi_creation
  \/ draw_triangle
  \/ apply_roi_mask
  \/ process
  \/ cancel
  \/ prepare_masked_images
  \/ NormalizeLayout
  \/ CheckInput
  \/ Fluorescence
  \/ EstimateAngle
  \/ Rotate
  \/ CheckRotated
  \/ Turn90
  \/ LocalSpreads
  \/ GlobalSpreads
  \/ Attach
  \/ process_returned
  \/ save_results_to_csv
  \/ process_error

SpecWindow == InitWindow /\ [][NextWindow]_vars

\* ================================================================== claims
HasNegative(img) == \E p \in DOMAIN img.v : img.v[p] < 0
IsNonNegative(img) == \A p \in DOMAIN img.v : img.v[p] >= 0

\* The locals of process_image that the stages after the input check assign.
NothingComputed ==
  /\ fluor = <<0, 0>>
  /\ angle = ZeroAngle
  /\ image_rotated = NoImage
  /\ image_rotated_90 = NoImage
  /\ profile = NoProfile
  /\ spread_results = NoResults

\* C1: a call of process_image on a volume with a negative intensity never gets
\* past the input check: once the check has run the call has raised "Image
\* contains negative values!", the only stages that ran are the layout
\* normalization and the check, no result record exists, nothing else was
\* computed, and the volume under analysis still holds its negative values.
C1_NegativeInputRaises ==
  (HasNegative(image_3d) /\ pc \notin {"start", "normalized"}) =>
    /\ pc = "raised"
    /\ raised = "Image contains negative values!"
    /\ stages = <<"normalize", "check_input">>
    /\ NothingComputed
    /\ HasNegative(image_yxz)
    /\ np_sum(image_yxz) = np_sum(image_3d)

C1_Witness ==
  /\ pc = "raised"
  /\ HasNegative(image_3d)
  /\ \E p \in DOMAIN image_3d.v : image_3d.v[p] > 0

\* The ten spread metrics of a result record.
PixelSpreads == {"spread_x_pixel", "spread_y_pixel", "spread_z_pixel",
                 "spread_xy_pixel", "spread_xyz_pixel"}
UmSpreads == {"spread_x_um", "spread_y_um", "spread_z_um",
              "spread_xy_um", "spread_xyz_um"}
TenSpreads == PixelSpreads \cup UmSpreads

HasRecord == pc \in {"global_done", "returned"}
ZeroTotal(img) == np_sum(img) = Int2R(0)
AllZeroRecord(r) == \A key \in TenSpreads \cup {"axonal_volume"} : r[key] = 0

\* C2 as stated: every call on a volume of total intensity zero raises nothing
\* and its record holds 0 for the ten spreads and axonal_volume.  (Violated: a
\* volume whose negative and positive voxels cancel has total zero and raises at
\* the input check.)
C2_AsStated ==
  ZeroTotal(image_3d) =>
    /\ raised = ""
    /\ HasRecord => AllZeroRecord(spread_results)

\* C2, amended: a call on a volume that has no negative voxel and total intensity
\* zero never raises; the angle it estimates is 0; calculate_global_spreads
\* returns the all-zero record of _get_empty_results; and the record returned
\* holds 0 for the ten spreads and axonal_volume and 0 for rotation_angle.
C2_ZeroVolume ==
  (ZeroTotal(image_3d) /\ IsNonNegative(image_3d)) =>
    /\ pc # "raised" /\ raised = ""
    /\ angle = ZeroAngle
    /\ HasRecord => AllZeroRecord(spread_results)
    /\ pc = "global_done" =>
         /\ DOMAIN spread_results = DOMAIN get_empty_results
         /\ \A key \in DOMAIN spread_results \ {"MMsum", "MMyy", "MMzz", "rotation_angle"} :
              spread_results[key] = 0
    /\ Finished =>
         /\ spread_results.rotation_angle = [round2 |-> ZeroAngle]
         /\ spread_results.fluorescence_px = 0

C2_Witness ==
  /\ Finished
  /\ ZeroTotal(image_3d)
  /\ image_3d.shape = <<2, 2, 2>>
  /\ AllZeroRecord(spread_results)

\* C3: for the ellipsoid of demo_pca_rotation generated at each rotation, the
\* record process_image returns has its X-spread at least its Y-spread, and the
\* X-spreads and the Y-spreads of the records of two rotations differ by at most
\* a tenth of a pixel.  (Violated: at 0 and at 90 degrees the covariance is
\* diagonal, the estimated angle is 0 for both, and the 90-degree turn then
\* reports the long axis of the 0-degree ellipsoid as its Y-spread.)
C3_RotationInvariant ==
  (source.kind = "ellipsoid" /\ Finished) =>
    /\ spread_results.spread_x_pixel >= spread_results.spread_y_pixel
    /\ (call = 2 /\ again = "turned") =>
         /\ Abs(spread_results.spread_x_pixel - first.spread_results.spread_x_pixel) <= 10
         /\ Abs(spread_results.spread_y_pixel - first.spread_results.spread_y_pixel) <= 10

\* C4: when the second call is given the volume of the first with every voxel
\* doubled, its record has the ten spreads of the first record and twice its
\* axonal_volume.  (Violated for integer element types: rotate_image keeps the
\* element type of its input, so a rotated sample is stored rounded, and the
\* rounding of the doubled sample is not the double of the rounding.)
C4_DoublingInvariant ==
  (call = 2 /\ again = "doubled" /\ Finished) =>
    /\ \A key \in TenSpreads : spread_results[key] = first.spread_results[key]
    /\ spread_results.axonal_volume = 2 * first.spread_results.axonal_volume

\* The physical-unit spread of each axis, by the index of its voxel size.
AxisUm == <<"spread_x_um", "spread_y_um", "spread_z_um">>

\* The second aggregation used the voxel sizes of the first with `axis` times k.
RescaledBy(axis, k) ==
  /\ call = 2
  /\ again = "rescaled"
  /\ voxel_size = Rescaled(first.voxel_size, axis, k)

\* What both readings of C5 say of the axes and units the factor does not touch.
OthersUnchanged(axis) ==
  /\ \A other \in (1 .. 3) \ {axis} :
       spread_results[AxisUm[other]] = first.spread_results[AxisUm[other]]
  /\ \A key \in PixelSpreads : spread_results[key] = first.spread_results[key]

\* C5 as stated: with the voxel size of one axis multiplied by k, the reported
\* physical-unit spread of that axis is exactly k times the one reported before,
\* and the other two physical spreads and all pixel spreads are unchanged.
\* (Violated: the reported values are rounded to 2 decimals after the scaling.)
C5_AsStated ==
  \A axis \in 1 .. 3, k \in Factors :
    (RescaledBy(axis, k) /\ first.spread_results.axonal_volume > 0) =>
      /\ k[2] * spread_results[AxisUm[axis]] = k[1] * first.spread_results[AxisUm[axis]]
      /\ OthersUnchanged(axis)

\* C5, amended: with the voxel size of one axis multiplied by k, the reported
\* physical-unit spread of that axis is k times the one reported before up to
\* the rounding of both to 2 decimals, |new - k old| <= (k + 1) * 0.005, and
\* the other two physical spreads and all pixel spreads are unchanged.
C5_Rescaling ==
  \A axis \in 1 .. 3, k \in Factors :
    (RescaledBy(axis, k) /\ first.spread_results.axonal_volume > 0) =>
      /\ 2 * Abs(k[2] * spread_results[AxisUm[axis]]
                  - k[1] * first.spread_results[AxisUm[axis]]) <= k[1] + k[2]
      /\ OthersUnchanged(axis)

C5_Witness ==
  /\ RescaledBy(1, Int2R(3))
  /\ \A axis \in 1 .. 3 : first.spread_results[AxisUm[axis]] > 0
  /\ spread_results.spread_x_um > 2 * first.spread_results.spread_x_um
  /\ spread_results.spread_x_um # 3 * first.spread_results.spread_x_um

\* C6 as stated: the fluorescence per pixel calculate_fluorescence returns is the
\* sum of the voxels divided by the region area, exactly.  (Violated: the value
\* is rounded to 2 decimals, total 1 over area 3 is returned as 0.33.)
C6_AsStated ==
  pc = "fluorescence_done" =>
    Rat(fluor[1], Scale) = RDiv(np_sum(image_3d), Int2R(mask_area_pixels))

\* C6, amended: the fluorescence per pixel calculate_fluorescence returns is a
\* whole number of hundredths and the nearest one to the sum of the voxels
\* divided by the region area: it differs from the quotient by at most 0.005.
C6_FluorescenceRounded ==
  pc = "fluorescence_done" =>
    LET total == np_sum(image_3d)
    IN  2 * Abs(Scale * total[1] - fluor[1] * mask_area_pixels * total[2])
          <= mask_area_pixels * total[2]

C6_Witness ==
  /\ pc = "fluorescence_done"
  /\ np_sum(image_3d) = Int2R(2)
  /\ mask_area_pixels = 3
  /\ fluor[1] = 67

\* Within one call: the caller's volume, the voxel sizes and the region area are
\* not changed, and each array a stage hands to the next keeps the contents and
\* the shape it was assigned.
CallKeepsInputs ==
  call' = call =>
    /\ image_3d' = image_3d
    /\ voxel_size' = voxel_size
    /\ mask_area_pixels' = mask_area_pixels
    /\ image_yxz # NoImage => image_yxz' = image_yxz
    /\ image_rotated # NoImage => image_rotated' = image_rotated
    /\ image_rotated_90 # NoImage => image_rotated_90' = image_rotated_90

\* A second call on the inputs of the first runs on the same volume and voxel
\* sizes and, once it has returned, its record equals the first record.
SameCallSameRecord ==
  (call = 2 /\ again = "same") =>
    /\ image_3d = first.image_3d
    /\ voxel_size = first.voxel_size
    /\ raised = ""
    /\ Finished => spread_results = first.spread_results

\* C7: no stage of process_image changes the volume it is given or the voxel
\* sizes of the processor, and two successive calls of process_image on the same
\* inputs return equal records.
C7_NoMutation == [][CallKeepsInputs]_vars /\ []SameCallSameRecord

C7_Witness ==
  /\ call = 2
  /\ again = "same"
  /\ Finished
  /\ image_3d.shape = <<2, 2, 2>>
  /\ spread_results.spread_xyz_um > 0
  /\ spread_results = first.spread_results

\* The stages of process_image in the order of the claim.
StageOrder ==
  <<"normalize", "check_input", "fluorescence", "pca_angle", "rotate",
    "check_rotated", "rot90", "local_spreads", "global_spreads", "attach">>

\* The stages that ran are the first ones of StageOrder, in that order; a call
\* that raised did so in a check, the last stage that ran; a call that returned
\* ran them all.
StagesInOrder ==
  /\ Len(stages) <= Len(StageOrder)
  /\ stages = SubSeq(StageOrder, 1, Len(stages))
  /\ pc = "raised" => /\ stages # <<>>
                      /\ stages[Len(stages)] \in {"check_input", "check_rotated"}
  /\ Finished <=> stages = StageOrder

\* C8: in every call of process_image the stages run in the fixed order
\* normalization, input check, fluorescence, angle estimation, rotation, check of
\* the rotated volume, 90-degree turn, local profile, global aggregation, attach,
\* each at most once and only after the one before it; and a call that raised
\* takes no further step.
C8_StageOrder == []StagesInOrder /\ [][pc # "raised"]_vars

C8_Witness ==
  /\ Finished
  /\ stages = StageOrder
  /\ call = 1
  /\ spread_results.axonal_volume > 0

\* The volume in (Y, X, Z) layout that an array of the given layout stands for.
Canonical(img, layout) == IF layout = "ZYX" THEN transpose_120(img) ELSE img

\* C9: process_image analyses the input transposed by (1, 2, 0) exactly when its
\* first extent is smaller than its last, and the input itself otherwise; and the
\* volume it analyses is the (Y, X, Z) form of the input: the transpose of an
\* input supplied as (Z, Y, X), the input itself when supplied as (Y, X, Z).
\* (Violated: the rule reads only the shape.  A (Z, Y, X) input with as many
\* slices as columns is analysed as supplied, and a (Y, X, Z) input with fewer
\* rows than slices is transposed.)
C9_LayoutNormalized ==
  pc # "start" =>
    /\ image_yxz = IF image_3d.shape[1] < image_3d.shape[3]
                   THEN transpose_120(image_3d) ELSE image_3d
    /\ image_yxz = Canonical(image_3d, source.layout)

\* The voxel of slab i at in-slab position y and slice z (all 1-indexed) of the
\* volume the profile was taken of: slab i is column i in the standard
\* convention and row i in the legacy one.
SlabVoxel(i, y, z) ==
  IF after_90deg_rotation THEN image_3d.v[<<y - 1, i - 1, z - 1>>]
  ELSE image_3d.v[<<i - 1, y - 1, z - 1>>]
IteratedLength == IF after_90deg_rotation THEN image_3d.shape[2] ELSE image_3d.shape[1]
InSlabLength == IF after_90deg_rotation THEN image_3d.shape[1] ELSE image_3d.shape[2]

\* The moments sum(c^k * weight) of slab i over the coordinate c = 1 .. n, the
\* weight of c being the slab summed over the other axis.
MomentY(i, k) ==
  SumSeq([y \in 1 .. InSlabLength |->
    (y ^ k) * SumSeq([z \in 1 .. image_3d.shape[3] |-> SlabVoxel(i, y, z)])])
MomentZ(i, k) ==
  SumSeq([z \in 1 .. image_3d.shape[3] |->
    (z ^ k) * SumSeq([y \in 1 .. InSlabLength |-> SlabVoxel(i, y, z)])])

\* C10: in the profile calculate_local_spreads returns for a non-negative
\* volume, in either convention, the four sequences have the length of the
\* iterated axis and xx00 counts it from 1; at a position whose slab total is 0
\* MMyy and MMzz are NaN; at a position whose slab total S is positive they are
\* the variances of the 1-indexed coordinate, E[c^2] - E[c]^2 = (S S2 - S1^2) / S^2,
\* and not negative.
C10_LocalProfile ==
  pc \in {"local_done", "global_done"} =>
    /\ Len(profile.MMsum) = IteratedLength
    /\ Len(profile.MMyy) = IteratedLength
    /\ Len(profile.MMzz) = IteratedLength
    /\ profile.xx00 = [i \in 1 .. IteratedLength |-> i]
    /\ \A i \in 1 .. IteratedLength :
         LET S == MomentY(i, 0)
         IN  /\ profile.MMsum[i] = Int2R(S)
             /\ S = 0 => IsNaN(profile.MMyy[i]) /\ IsNaN(profile.MMzz[i])
             /\ S > 0 =>
                  /\ profile.MMyy[i] = Rat(S * MomentY(i, 2) - MomentY(i, 1) ^ 2, S * S)
                  /\ profile.MMzz[i] = Rat(S * MomentZ(i, 2) - MomentZ(i, 1) ^ 2, S * S)
                  /\ profile.MMyy[i][1] >= 0 /\ profile.MMyy[i][2] > 0
                  /\ profile.MMzz[i][1] >= 0 /\ profile.MMzz[i][2] > 0

C10_Witness ==
  /\ pc = "local_done"
  /\ ~after_90deg_rotation
  /\ image_3d.shape = <<2, 3, 1>>
  /\ IsNaN(profile.MMyy[1])
  /\ RIsPos(profile.MMyy[2])

\* The sum over the positions whose local variance is defined of the variance
\* times the slab total, divided by the total over all positions.
PooledVariance(MMvar, MMsum) ==
  RDiv(RSumSeq([i \in 1 .. Len(MMsum) |->
                 IF IsNaN(MMvar[i]) THEN Int2R(0) ELSE RMul(MMvar[i], MMsum[i])]),
       RSumSeq(MMsum))

\* reported (in hundredths) is the square root of the real q >= 0 to 2 decimals:
\* (reported - 1/2)^2 <= 100^2 q <= (reported + 1/2)^2.
IsRoot2(reported, q) ==
  /\ reported >= 0
  /\ reported > 0 => (2 * reported - 1) * (2 * reported - 1) * q[2] <= 4 * Scale * Scale * q[1]
  /\ 4 * Scale * Scale * q[1] <= (2 * reported + 1) * (2 * reported + 1) * q[2]

HasNaNPosition == \E i \in 1 .. Len(profile.MMyy) : IsNaN(profile.MMyy[i])

\* C11: for a profile of positive total, the Y-spread and the Z-spread that
\* calculate_global_spreads reports are, to the 2 decimals of the record, the
\* square roots of the pooled variances: the sum over the positions with a
\* defined local variance of variance times MMsum, over the total of MMsum.  A
\* NaN position adds nothing and the result is a number.
C11_PooledSpreads ==
  (pc = "global_done" /\ call = 1 /\ RIsPos(RSumSeq(profile.MMsum))) =>
    /\ IsRoot2(spread_results.spread_y_pixel, PooledVariance(profile.MMyy, profile.MMsum))
    /\ IsRoot2(spread_results.spread_z_pixel, PooledVariance(profile.MMzz, profile.MMsum))

C11_Witness ==
  /\ pc = "global_done"
  /\ call = 1
  /\ HasNaNPosition
  /\ Cardinality({i \in 1 .. Len(profile.MMyy) : RIsPos(profile.MMyy[i])}) >= 1
  /\ Cardinality({i \in 1 .. Len(profile.MMsum) : RIsPos(profile.MMsum[i])}) >= 2
  /\ spread_results.spread_y_pixel > 0

AngleKnown ==
  pc \in {"angle_done", "rotated", "rotated_ok", "turned", "local_done",
          "global_done", "returned"}

\* The Z-projection of the volume under analysis and, over the common positive
\* factor 1 / S^2, its weighted variances along the columns (X) and the rows (Y):
\* S * sum(p c^2) - (sum(p c))^2.
Projection(y, x) ==
  SumSeq([k \in 1 .. image_yxz.shape[3] |-> image_yxz.v[<<y, x, k - 1>>]])
Power(c, k) == IF k = 0 THEN 1 ELSE IF k = 1 THEN c ELSE c * c
ProjectionMoment(kx, ky) ==
  SumSeq([i \in 1 .. image_yxz.shape[1] |->
    SumSeq([j \in 1 .. image_yxz.shape[2] |->
      Power(j - 1, kx) * Power(i - 1, ky) * Projection(i - 1, j - 1)])])
VarX == ProjectionMoment(0, 0) * ProjectionMoment(2, 0) - ProjectionMoment(1, 0) ^ 2
VarY == ProjectionMoment(0, 0) * ProjectionMoment(0, 2) - ProjectionMoment(0, 1) ^ 2

\* C12: for a non-empty projection, the angle calculate_pca_rotation_angle returns
\* is the angle of the eigenvector of the larger eigenvalue of the covariance
\* matrix.  The angle returned is the one within 45 degrees of the X axis, which
\* belongs to the larger eigenvalue only when the variance along X is at least
\* the variance along Y.  (Violated: the code takes column 0 of the
\* decomposition, which np.linalg.eig pairs with the X entry of the diagonal,
\* whichever eigenvalue is larger.)
C12_LargestEigenvector ==
  (AngleKnown /\ ProjectionMoment(0, 0) > 0) => VarX >= VarY

\* The variance of the position along the iterated axis, weighted by MMsum.
PositionVariance(MMsum, xx00) ==
  LET T == RSumSeq(MMsum)
      M1 == RSumSeq([i \in 1 .. Len(MMsum) |-> RMul(Int2R(xx00[i]), MMsum[i])])
      M2 == RSumSeq([i \in 1 .. Len(MMsum) |-> RMul(Int2R(xx00[i] * xx00[i]), MMsum[i])])
  IN  RSub(RDiv(M2, T), RSquare(RDiv(M1, T)))

\* The squares of the three unrounded spreads of the profile, in pixels and,
\* with the voxel sizes of the processor, in um.
Px2 == <<PositionVariance(profile.MMsum, profile.xx00),
         PooledVariance(profile.MMyy, profile.MMsum),
         PooledVariance(profile.MMzz, profile.MMsum)>>
Um2 == [a \in 1 .. 3 |-> RMul(Px2[a], RSquare(voxel_size[a]))]

Aggregated == pc = "global_done" /\ RIsPos(RSumSeq(profile.MMsum))

\* C13 as stated: in the record, the 2D combined spread is the product of the
\* X- and Y-spread of the record and the 3D one the product of all three, in
\* pixels and in um.  (Violated: each field is rounded to 2 decimals on its own,
\* so the combined fields are not the products of the per-axis fields.)
C13_AsStated ==
  Aggregated =>
    LET r == spread_results
    IN  /\ Scale * r.spread_xy_pixel = r.spread_x_pixel * r.spread_y_pixel
        /\ Scale * Scale * r.spread_xyz_pixel
             = r.spread_x_pixel * r.spread_y_pixel * r.spread_z_pixel
        /\ Scale * r.spread_xy_um = r.spread_x_um * r.spread_y_um
        /\ Scale * Scale * r.spread_xyz_um = r.spread_x_um * r.spread_y_um * r.spread_z_um

\* C13, amended: each combined field of the record is, to 2 decimals, the
\* product of the unrounded per-axis spreads (X times Y, and X times Y times Z),
\* in pixels and in um, and each per-axis um field is, to 2 decimals, the
\* unrounded pixel spread times the voxel size of its axis.
C13_CombinedSpreads ==
  Aggregated =>
    LET r == spread_results
    IN  /\ IsRoot2(r.spread_xy_pixel, RMul(Px2[1], Px2[2]))
        /\ IsRoot2(r.spread_xyz_pixel, RMul(RMul(Px2[1], Px2[2]), Px2[3]))
        /\ IsRoot2(r.spread_xy_um, RMul(Um2[1], Um2[2]))
        /\ IsRoot2(r.spread_xyz_um, RMul(RMul(Um2[1], Um2[2]), Um2[3]))
        /\ \A a \in 1 .. 3 : IsRoot2(r[AxisUm[a]], Um2[a])

C13_Witness ==
  /\ Aggregated
  /\ call = 1
  /\ spread_results.spread_xyz_pixel > 0
  /\ spread_results.spread_xyz_um > 0
  /\ Scale * spread_results.spread_xy_pixel
       # spread_results.spread_x_pixel * spread_results.spread_y_pixel

\* value (in hundredths) is the real q to 2 decimals: |value - 100 q| <= 1/2.
IsRounded2(value, q) == 2 * Abs(Scale * q[1] - value * q[2]) <= q[2]

\* C14: in the record process_image returns, every scalar is a number of
\* hundredths obtained by rounding an unrounded quantity once: the fluorescence
\* values round total / area and total / (area * voxel_x * voxel_y),
\* axonal_volume rounds the total of the profile, each per-axis, physical and
\* combined spread rounds the root taken of the unrounded variances (never of
\* an already rounded spread), and rotation_angle is the rounding of the angle
\* that, unrounded, was handed to rotate_image.
C14_RoundedOnce ==
  Finished =>
    LET r == spread_results
        total == np_sum(image_yxz)
        area_um2 == RMul(Int2R(mask_area_pixels), RMul(voxel_size[1], voxel_size[2]))
    IN  /\ IsRounded2(r.fluorescence_px, RDiv(total, Int2R(mask_area_pixels)))
        /\ IsRounded2(r.fluorescence_um, RDiv(total, area_um2))
        /\ IsRounded2(r.axonal_volume, RSumSeq(profile.MMsum))
        /\ r.rotation_angle = [round2 |-> angle]
        /\ image_rotated = rotate_image(image_yxz, angle)
        /\ RIsPos(RSumSeq(profile.MMsum)) =>
             /\ r.axonal_volume > 0
             /\ IsRoot2(r.spread_x_pixel, Px2[1])
             /\ IsRoot2(r.spread_y_pixel, Px2[2])
             /\ IsRoot2(r.spread_z_pixel, Px2[3])
             /\ IsRoot2(r.spread_x_um, Um2[1])
             /\ IsRoot2(r.spread_y_um, Um2[2])
             /\ IsRoot2(r.spread_z_um, Um2[3])
             /\ IsRoot2(r.spread_xy_pixel, RMul(Px2[1], Px2[2]))
             /\ IsRoot2(r.spread_xy_um, RMul(Um2[1], Um2[2]))
             /\ IsRoot2(r.spread_xyz_pixel, RMul(RMul(Px2[1], Px2[2]), Px2[3]))
             /\ IsRoot2(r.spread_xyz_um, RMul(RMul(Um2[1], Um2[2]), Um2[3]))

C14_Witness ==
  /\ Finished
  /\ call = 1
  /\ spread_results.fluorescence_px = 133
  /\ spread_results.spread_z_pixel = 43
  /\ spread_results.spread_z_um = 87

RecordFields ==
  TenSpreads \cup {"axonal_volume", "fluorescence_px", "fluorescence_um",
                   "rotation_angle", "additional_rotation", "MMsum", "MMyy", "MMzz"}

\* C15: every record process_image returns, whether calculate_global_spreads
\* took the zero-signal path or the normal path, has exactly the eighteen field
\* names RecordFields; its fluorescence values are those of the input volume
\* (total / area and total / physical area, to 2 decimals), its rotation_angle
\* is the rounding of the angle rotate_image was called with, and its
\* additional_rotation is 90.
C15_SameFields ==
  Finished =>
    LET r == spread_results
        total == np_sum(image_3d)
        area_um2 == RMul(Int2R(mask_area_pixels), RMul(voxel_size[1], voxel_size[2]))
    IN  /\ DOMAIN r = RecordFields
        /\ IsRounded2(r.fluorescence_px, RDiv(total, Int2R(mask_area_pixels)))
        /\ IsRounded2(r.fluorescence_um, RDiv(total, area_um2))
        /\ r.rotation_angle.round2 = angle
        /\ image_rotated = rotate_image(image_yxz, angle)
        /\ r.additional_rotation = 90

\* The zero-signal path taken by a volume that has signal: the rotated volume
\* is empty, the record is the empty one with the input's fluorescence attached.
C15_Witness ==
  /\ Finished
  /\ spread_results.MMsum = <<>>
  /\ spread_results.fluorescence_px > 0
  /\ spread_results.additional_rotation = 90

\* The canvas scipy allocates for one rotated slice of the given extents.
Canvas(rows, cols, a) ==
  IF a = ZeroAngle THEN <<rows, cols>>
  ELSE IF 175 * a.n * a.n >= 81 * a.d * a.d THEN <<3, 3>> ELSE <<2, 2>>

\* C16: once rotate_image has returned, the rotated volume has as many depth
\* slices as the volume it was given, its row and column extents are those of
\* the canvas of the rotated first slice, it holds a value at every position of
\* that shape, and the volume given is still the caller's (normalized) input;
\* once the 90-degree turn is done, the turned volume has the rotated volume's
\* column extent as rows, its row extent as columns, and the same depth.
C16_RotatedShape ==
  /\ image_rotated # NoImage =>
       /\ image_rotated.shape[3] = image_yxz.shape[3]
       /\ image_rotated.shape[3] >= 1
       /\ <<image_rotated.shape[1], image_rotated.shape[2]>>
            = Canvas(image_yxz.shape[1], image_yxz.shape[2], angle)
       /\ DOMAIN image_rotated.v = Idx(image_rotated.shape)
       /\ image_yxz \in {image_3d, transpose_120(image_3d)}
  /\ image_rotated_90 # NoImage =>
       /\ image_rotated_90.shape[1] = image_rotated.shape[2]
       /\ image_rotated_90.shape[2] = image_rotated.shape[1]
       /\ image_rotated_90.shape[3] = image_yxz.shape[3]
       /\ DOMAIN image_rotated_90.v = Idx(image_rotated_90.shape)

\* A turned volume whose rows and columns differ in number.
C16_Witness ==
  /\ image_rotated_90 # NoImage
  /\ image_rotated_90.shape[1] # image_rotated_90.shape[2]

\* The columns in the order claimed, and the label that stands for each.
ClaimedColumns ==
  <<"spread_x_pixel", "spread_y_pixel", "spread_z_pixel", "spread_xy_pixel",
    "spread_xyz_pixel", "spread_x_um", "spread_y_um", "spread_z_um", "spread_xy_um",
    "spread_xyz_um", "axonal_volume", "fluorescence_px", "fluorescence_um">>
LabelOf ==
  [spread_x_pixel |-> "Spread x [pixel]", spread_y_pixel |-> "Spread y [pixel]",
   spread_z_pixel |-> "Spread z [pixel]", spread_xy_pixel |-> "Spread x*y [pixel2]",
   spread_xyz_pixel |-> "Spread x*y*z [pixel3]",
   spread_x_um |-> "Spread x [um]", spread_y_um |-> "Spread y [um]",
   spread_z_um |-> "Spread z [um]", spread_xy_um |-> "Spread x*y [um2]",
   spread_xyz_um |-> "Spread x*y*z [um3]", axonal_volume |-> "Axonal Volume",
   fluorescence_px |-> "Fluorescence_px", fluorescence_um |-> "Fluorescence_um"]
IsHeaderRow(row) == row[1] = "Image filename"
JustSaved == pc = "idle" /\ stages # <<>> /\ stages[Len(stages)] = "save"

\* Every row of the file has the fifteen fields of the header; the header names
\* the file name, the thirteen metrics in the claimed order and the observation;
\* the row just saved holds the image name, the value of each of these metrics
\* of the record in that order, and the observation; no header row comes after
\* a results row.
RowsMatchHeader ==
  csv_file # Absent =>
    /\ \A i \in 1 .. Len(csv_file) : Len(csv_file[i]) = 15
    /\ Len(Header) = 15
    /\ Header[1] = "Image filename" /\ Header[15] = "Observation"
    /\ \A k \in 1 .. 13 : Header[k + 1] = LabelOf[ClaimedColumns[k]]
    /\ \A i, j \in 1 .. Len(csv_file) :
         (IsHeaderRow(csv_file[i]) /\ ~IsHeaderRow(csv_file[j])) => i < j
    /\ JustSaved =>
         LET row == csv_file[Len(csv_file)]
         IN  /\ row[1] = basename[current_image_filepath]
             /\ \A k \in 1 .. 13 : row[k + 1] = spread_results[ClaimedColumns[k]]
             /\ row[15].quoted \in Observations

\* A step writes the header exactly when it creates the file, as its first
\* row; a file that exists only ever gets one results row appended.
HeaderOnlyOnCreation ==
  /\ (csv_file = Absent /\ csv_file' # Absent) => csv_file' = <<Header>>
  /\ (csv_file # Absent /\ csv_file' # csv_file) =>
       /\ csv_file' # Absent
       /\ Len(csv_file') = Len(csv_file) + 1
       /\ SubSeq(csv_file', 1, Len(csv_file)) = csv_file
       /\ ~IsHeaderRow(csv_file'[Len(csv_file')])
       /\ pc = "progress_90"

\* C17: every results row appended by _save_results_to_csv has as many fields as
\* the header row of load_images and in the same order (file name, the five
\* pixel spreads, the five physical spreads, axonal volume, the two
\* fluorescence values, observation); the header is written only by the step
\* that creates the file, so where it is written it precedes every results row.
C17_RowsFollowHeader == [](RowsMatchHeader) /\ [][HeaderOnlyOnCreation]_vars

\* A file created in the session, with the header and two results rows, the
\* last with an observation that holds a comma.
C17_Witness ==
  /\ JustSaved
  /\ Len(csv_file) = 3
  /\ IsHeaderRow(csv_file[1])
  /\ csv_file[2][1] = basename[current_image_filepath]
  /\ csv_file[3][15].quoted = "a, b"
  /\ csv_file[3][2] # csv_file[3][7]

\* x < k, for a real x and an integer k.
Below(x, k) == RIsPos(RSub(Int2R(k), x))

\* C18: whenever validate_parameters has answered, it answered (True, "")
\* exactly when the three sizes are positive, X and Y are below 10 and Z is
\* below 50, and (False, a non-empty message) otherwise; and when a size is not
\* positive the message is 'All voxel sizes must be positive', whatever the
\* other sizes are.
C18_ValidExactly ==
  validation # NoValidation =>
    LET x == validation.sizes[1]
        y == validation.sizes[2]
        z == validation.sizes[3]
        positive == RIsPos(x) /\ RIsPos(y) /\ RIsPos(z)
        plausible == positive /\ Below(x, 10) /\ Below(y, 10) /\ Below(z, 50)
    IN  /\ plausible => (validation.is_valid /\ validation.error_msg = "")
        /\ ~plausible => (~validation.is_valid /\ validation.error_msg # "")
        /\ ~positive => validation.error_msg = "All voxel sizes must be positive"

\* C19: whatever the element type of the volume given to rotate_image, the
\* volume it returns has float64 elements.  (Violated: the output is allocated
\* with the element type of the input, line 238, and scipy.ndimage.rotate
\* returns the element type of its input too, so a uint8 volume comes back as
\* uint8, its resampled intensities truncated.)
C19_RotatedIsFloat64 ==
  image_rotated # NoImage => image_rotated.dtype = "float64"

\* S^2 times the weighted covariance of the column and the row of the projection.
CovXY ==
  ProjectionMoment(0, 0) * ProjectionMoment(1, 1)
    - ProjectionMoment(1, 0) * ProjectionMoment(0, 1)

\* C20: for a non-empty projection, the angle returned is the two-argument
\* arctangent of the two components of the chosen eigenvector: it has the
\* tangent of the eigenvector's direction, and it is +90 or -90 degrees when the
\* component along X is zero.  The angle returned lies within 90 degrees of
\* the X axis, where the two-argument arctangent lies only if the component
\* along X is positive.  (Violated: line 186 takes the arctangent of the ratio
\* of the components; for a first component below zero, the case Cxy # 0 and
\* Cxx < Cyy, the two differ by a half turn.)
C20_TwoArgumentArctangent ==
  (AngleKnown /\ ProjectionMoment(0, 0) > 0) =>
    LET v == linalg_eig(Int2R(VarX), Int2R(CovXY), Int2R(VarY))
    IN  /\ angle = v.tan2
        /\ v.v00_sign > 0

\* The moments of row i of the rotated volume V (before the fixed turn): the
\* sum of c^k * weight over the columns c, the weight being the row summed over
\* the slices, and over the slices c, the weight being the row summed over the
\* columns.
RowMomentY(i, k) ==
  SumSeq([y \in 1 .. image_rotated.shape[2] |->
    (y ^ k) * SumSeq([z \in 1 .. image_rotated.shape[3] |->
                       image_rotated.v[<<i - 1, y - 1, z - 1>>]])])
RowMomentZ(i, k) ==
  SumSeq([z \in 1 .. image_rotated.shape[3] |->
    (z ^ k) * SumSeq([y \in 1 .. image_rotated.shape[2] |->
                       image_rotated.v[<<i - 1, y - 1, z - 1>>]])])
Profiled == pc \in {"local_done", "global_done", "returned"}

\* C28: the profile process_image takes, with the standard column convention,
\* of the volume V turned by the fixed 90 degrees is the profile the legacy row
\* convention defines on V itself: one position per row of V, counted from 1,
\* with the row's total, and the variances of the column and of the slice
\* coordinate within the row (NaN where the row is empty); and process_image
\* passes after_90deg_rotation = True.
C28_ConventionsAgree ==
  Profiled =>
    /\ after_90deg_rotation
    /\ Len(profile.MMsum) = image_rotated.shape[1]
    /\ Len(profile.MMyy) = image_rotated.shape[1]
    /\ Len(profile.MMzz) = image_rotated.shape[1]
    /\ profile.xx00 = [i \in 1 .. image_rotated.shape[1] |-> i]
    /\ \A i \in 1 .. image_rotated.shape[1] :
         LET S == RowMomentY(i, 0)
         IN  /\ profile.MMsum[i] = Rat(S, image_rotated.den)
             /\ S = 0 => IsNaN(profile.MMyy[i]) /\ IsNaN(profile.MMzz[i])
             /\ S > 0 =>
                  /\ profile.MMyy[i] = Rat(S * RowMomentY(i, 2) - RowMomentY(i, 1) ^ 2, S * S)
                  /\ profile.MMzz[i] = Rat(S * RowMomentZ(i, 2) - RowMomentZ(i, 1) ^ 2, S * S)

\* A profile of a volume whose two rows differ in total, one with a spread
\* along the columns.
C28_Witness ==
  /\ Profiled
  /\ Len(profile.MMsum) = 2
  /\ profile.MMsum[1] # profile.MMsum[2]
  /\ RIsPos(profile.MMsum[1])
  /\ RIsPos(profile.MMyy[1])

\* The run of process that has just ended, and how it ended.
RunEnded == pc = "idle" /\ stages # <<>>
LastStage == stages[Len(stages)]
SuccessShown == \E k \in DOMAIN message_box : message_box[k] = "Processing Complete"
MarkOfSelected == listWidget_images[selected].background

\* C23: when a run of process has ended, the success dialog was shown and the
\* item was marked green only if the run appended its results row; and a run
\* in which processing or saving failed has marked the item red and shown no
\* success dialog.
C23_GreenOnlyIfSaved ==
  RunEnded =>
    /\ SuccessShown => LastStage = "save"
    /\ LastStage = "save" => MarkOfSelected = "lightgreen"
    /\ LastStage \in {"save_error", "error"} =>
         (MarkOfSelected = "#FB889A" /\ ~SuccessShown)

\* C24: the Z range _validate_processing_parameters accepted has
\* z_start < z_end, both indices of slices of the masked volume, and the
\* volume handed to process_image has the z_end - z_start + 1 slices.
C24_AcceptedRangeIsValid ==
  z_range # <<>> =>
    /\ z_range[1] < z_range[2]
    /\ 0 <= z_range[1]
    /\ z_range[2] <= Len(complexity_channel) - 1
    /\ pc = "start" => image_3d.shape[1] = z_range[2] - z_range[1] + 1

\* C26: a run of process in which the progress dialog was canceled before the
\* results were saved has appended no row and has not reported the image as
\* processed.
C26_CanceledNeverSaves ==
  (RunEnded /\ wasCanceled) => (LastStage # "save" /\ ~SuccessShown)

\* A step in which the view got a click, a key, or Apply was pressed.
ClickStep == handled' = "sigMouseClicked"
KeyStep == handled' = "handle_key_press"
ApplyStep == handled' = "apply_roi_mask"
Front(s) == SubSeq(s, 1, Len(s) - 1)

\* C27: a click adds exactly one vertex to temp_points, at its end, while
\* creating_roi holds and none otherwise; a key either takes away the last
\* vertex, or finds none, or (Escape) leaves creation off with no vertices.
C27_OneVertexPerClick ==
  [][/\ ClickStep =>
          IF creating_roi
          THEN /\ Len(temp_points') = Len(temp_points) + 1
               /\ Front(temp_points') = temp_points
          ELSE temp_points' = temp_points
     /\ KeyStep =>
          \/ /\ temp_points # <<>>
             /\ temp_points' = Front(temp_points)
             /\ creating_roi' = creating_roi
          \/ /\ temp_points = <<>>
             /\ temp_points' = <<>>
             /\ creating_roi' = creating_roi
          \/ /\ temp_points' = <<>>
             /\ ~creating_roi']_vars

\* The region a list of vertices encloses, and a channel masked by it.
ClosedRing(vertices) == Append(vertices, vertices[1])
PixelInside(vertices) == contains_point(ClosedRing(vertices), <<0, 0>>)
MaskedBy(vertices, channel_image) ==
  [z \in 1 .. Len(channel_image) |-> IF PixelInside(vertices) THEN channel_image[z] ELSE 0]

\* C30: Apply with no region and fewer than 3 vertices changes nothing of the
\* region, the area, the masked channels, the creation mode and the vertices;
\* with no region and 3 vertices or more the region has these vertices in
\* their order (and the first once more, to close it), and the area and the
\* mask are those of their polygon; with a region, the region stays, and the
\* area and the mask are those of the region, whatever was collected since.
C30_ApplyUsesTheRoi ==
  [][ApplyStep =>
       IF roi = Nothing /\ Len(temp_points) < 3
       THEN UNCHANGED <<roi_fields, masked_fields, comboBox_plasticityChannel,
                        comboBox_fluoChannel>>
       ELSE LET used == IF roi = Nothing THEN temp_points ELSE roi
                index == comboBox_plasticityChannel.currentIndex
            IN  /\ roi = Nothing =>
                     /\ Front(roi') = temp_points
                     /\ {roi'[k] : k \in DOMAIN roi'} =
                          {temp_points[k] : k \in DOMAIN temp_points}
                /\ roi # Nothing => roi' = roi
                /\ AArea' = PolygonArea(ClosedRing(used))
                /\ (current_image_data # Nothing /\ 0 <= index
                      /\ index < Len(current_image_data)) =>
                     complexity_channel' =
                       MaskedBy(used, current_image_data[index + 1])]_vars

\* Apply has kept the region and its area although the vertices collected
\* since enclose another area.
C30_Witness ==
  /\ handled = "apply_roi_mask"
  /\ roi # Nothing
  /\ Len(temp_points) >= 3
  /\ temp_points # roi
  /\ AArea = PolygonArea(ClosedRing(roi))
  /\ AArea # PolygonArea(ClosedRing(temp_points))
  /\ complexity_channel # Nothing

\* A step in which an Undo button was pressed.
UndoStep == handled' = "undo_filter"

\* C22: an undo that changes a channel leaves it as it was immediately before
\* the most recent filter on that channel and leaves no backup of it; an undo
\* that reports No Backup changes neither the channels nor the backups.
C22_UndoTakesBackLastFilter ==
  [][UndoStep =>
       /\ \A k \in 0 .. Len(current_image_data) - 1 :
            current_image_data'[k + 1] # current_image_data[k + 1] =>
              /\ <<k, current_image_data'[k + 1]>> \in filtered_from
              /\ ~\E b \in original_image_data' : b[1] = k
       /\ message_box' = <<"No Backup">> =>
            UNCHANGED <<current_image_data, original_image_data>>]_vars

\* The volume process hands to process_image is the Z range of the masked
\* copy, slice by slice, and so is the fluorescence volume.
AnalysedIsMaskedCopy ==
  pc = "start" =>
    /\ image_3d.shape = <<z_range[2] - z_range[1] + 1, 1, 1>>
    /\ \A k \in 0 .. z_range[2] - z_range[1] :
         image_3d.v[<<k, 0, 0>>] = complexity_channel[z_range[1] + k + 1]
    /\ (fluor_channel = Nothing) = (masked_image_fluor = Nothing)
    /\ fluor_channel # Nothing =>
         \A k \in 0 .. z_range[2] - z_range[1] :
           masked_image_fluor[k + 1] = fluor_channel[z_range[1] + k + 1]

\* Apply leaves the channels on display as they are; and the masked copies
\* change only in a step of Apply, to the copies of the channels then on
\* display, masked by the region.
MaskedOnlyByApply ==
  /\ ApplyStep => current_image_data' = current_image_data
  /\ masked_fields' # masked_fields =>
       /\ ApplyStep
       /\ complexity_channel' =
            MaskedBy(roi', current_image_data[comboBox_plasticityChannel.currentIndex + 1])
       /\ fluor_channel' =
            IF comboBox_fluoChannel.currentIndex = 0 THEN Nothing
            ELSE MaskedBy(roi', current_image_data[comboBox_fluoChannel.currentIndex])

\* C29: apply_roi_mask leaves current_image_data unchanged and stores masked
\* copies; no filter and no undo after it changes them; and the volume process
\* analyses is the Z range of the masked copy of the last Apply.
C29_AnalysedIsMaskedCopy == [](AnalysedIsMaskedCopy) /\ [][MaskedOnlyByApply]_vars

\* process_image is about to analyse the masked copy of the channel as it was
\* when the region was applied, while the channel on display was filtered
\* since.
C29_Witness ==
  /\ pc = "start"
  /\ comboBox_plasticityChannel.currentIndex = 0
  /\ complexity_channel = <<1, 3, 0>>
  /\ current_image_data[1] = <<0, 3, 0>>
  /\ image_3d.v[<<0, 0, 0>>] = 1

\* A volume is a masked copy of a channel: the channel, or all zero.
IsMaskedCopyOf(volume, channel_image) ==
  \/ volume = channel_image
  \/ volume = [z \in 1 .. Len(channel_image) |-> 0]

\* C21: whenever _validate_processing_parameters has let process go on, and
\* when a row has just been saved under the name of the current image, the
\* masked plasticity channel is a masked copy of a channel of the image that
\* is loaded now.
C21_MaskOfCurrentImage ==
  (pc # "idle" \/ JustSaved) =>
    \E c \in DOMAIN current_image_data :
      IsMaskedCopyOf(complexity_channel, current_image_data[c])

\* C25: a step of on_image_selected that leaves no image data was left by no
\* exception, has shown a message, and leaves no metadata and the three
\* channel selectors as they were.
C25_FailedLoadLeavesReset ==
  [][(handled' = "on_image_selected" /\ current_image_data' = Nothing) =>
       /\ unhandled' = ""
       /\ message_box' # <<>>
       /\ current_metadata_channel' = Nothing
       /\ UNCHANGED <<comboBox_channel_selector, comboBox_plasticityChannel,
                      comboBox_fluoChannel>>]_vars

====
